---- MODULE Spec2Model ----
(***************************************************************************)
(* State-machine model of the reservation worker's event-processing core.  *)
(*                                                                         *)
(* The repository holds three retry implementations and two pollers:       *)
(*   "worker"     Worker.pollSQS / receiveAndProcessMessages / worker /    *)
(*                processEventWithRetry (internal/worker/worker.go 23-329) *)
(*   "dispatcher" SQSPoller.Start / pollOnce / processMessage,             *)
(*                Dispatcher.dispatch / HandleEvent (worker.go 346-749),   *)
(*                the pipeline cmd/reservation-worker/main.go wires up     *)
(*   "retryer"    retry.Retryer.Do (unnamed/part_009 124-175)              *)
(* The variable pipeline says which of them a behaviour runs.              *)
(*                                                                         *)
(* Go's select picks at random among its ready cases: each case is an      *)
(* action of its own, enabled when the case is ready.  Time is abstract:   *)
(* a timer that has been started may fire at any later step.               *)
(***************************************************************************)
EXTENDS Integers, Sequences, FiniteSets, TLC

\* ------------------------------------------------------------------ bounds
NumMsgs == 2            \* messages put on the queue
MaxRedeliveries == 1    \* redeliveries (of any message) the model follows
WorkerConcurrency == 1  \* cfg.WorkerConcurrency
MaxRetries == 2         \* cfg.MaxRetries
BackoffBaseMs == 10000  \* cfg.BackoffBaseMs
ExtraAttempts == 1      \* attempts of one retry loop followed beyond MaxRetries + 1
MaxPollErrors == 2      \* transport errors of ReceiveMessage the model follows
MaxAttemptArg == 6      \* greatest attempt number given to a backoff function
MaxStopCalls == 2       \* calls of one component's Stop the model follows

\* ------------------------------------------------------ program constants
MaxIntervalMs == 120000        \* backoffStrategy.MaxInterval = 2 min
MaxElapsedTimeMs == 300000     \* backoffStrategy.MaxElapsedTime = 5 min
HandlerTimeoutMs == 30000      \* http.Client Timeout of the reservation client
DefaultMaxRetries == 5         \* getEnvInt("MAX_RETRIES", 5)
DefaultBackoffBaseMs == 1000   \* getEnvInt("BACKOFF_BASE_MS", 1000)

Msgs == 1..NumMsgs
\* a delivery <<m, n>> is the n-th receipt of message m; it stands for the
\* receipt handle the queue returned with it
Deliveries == Msgs \X (1..(1 + MaxRedeliveries))
None == <<0, 0>>
\* goroutine ids; one more than the pool size, so that a pool that is too
\* large is representable
WorkerIds == 1..(WorkerConcurrency + 1)

Min(a, b) == IF a < b THEN a ELSE b

RECURSIVE Pow2(_)
Pow2(n) == IF n <= 0 THEN 1 ELSE 2 * Pow2(n - 1)

\* a retry loop is followed up to this many attempts
AttemptCap == MaxRetries + 1 + ExtraAttempts

\* --------------------------------------------------------- message bodies
\* A body is what json.Unmarshal makes of it: json = FALSE is a nil body or
\* a body that does not unmarshal; a missing field is the empty string.
Expired == [json |-> TRUE, id |-> "e1", reservation_id |-> "rsv_1", type |-> "reservation.expired"]
Garbage == [json |-> TRUE, id |-> "x", reservation_id |-> "rsv_1", type |-> "garbage"]
NoReservation == [json |-> TRUE, id |-> "e2", reservation_id |-> "", type |-> "reservation.expired"]
NoId == [json |-> TRUE, id |-> "", reservation_id |-> "rsv_1", type |-> "reservation.expired"]
BadJson == [json |-> FALSE, id |-> "", reservation_id |-> "", type |-> ""]
Bodies == {Expired, Garbage, NoReservation, NoId, BadJson}

\* the messages on the queue: the first has any body, the others are
\* well-formed
Batches == {b \in [Msgs -> Bodies] : \A m \in Msgs : m > 1 => b[m] = Expired}

\* pkg/types EventType constants, the types EventHandlerImpl.Handle routes
WorkerEventTypes == {"reservation.expired", "payment.approved", "payment.failed"}
\* the types Dispatcher.HandleEvent routes
DispatcherEventTypes == {"reservation.expired", "reservation.hold.expired", "payment.approved", "payment.failed"}

VARIABLES
  pipeline,     \* "worker", "dispatcher", "retryer", "handler", "function" or "stop"
  body,         \* body[m]: the body of queue message m
  maxRetries,   \* cfg.MaxRetries of this run
  workerCount,  \* cfg.WorkerConcurrency of this run
  faults,       \* how many ReceiveMessage calls of this run may fail
  backoffBase,  \* cfg.BackoffBaseMS of this run, in milliseconds
  stops,        \* how many callers may call the component's Stop in this run
  comp,         \* the component whose Stop is called: "Worker", "SQSPoller", "Dispatcher"
  stoppc,       \* stoppc[c]: position of caller c inside Stop
  stopChanClosed, \* stopChan of the component has been closed
  jobChanClosed,  \* Worker.jobChan has been closed
  panic,        \* "none", or the runtime panic that ended the process
  httpFails,    \* this run's HTTP server may fail to listen
  httppc,       \* the goroutine of startHTTPServer: "none", "serving" or "returned"
  exitBranch,   \* the case of main's last select: "none", "graceful" or "timeout"
  eventsTotal,  \* eventsTotal[d][o]: increments of the events counter with
                \* outcome label o made for delivery d
  mainpc,       \* position of main in its shutdown sequence
  tickReady,    \* pollSQS: a tick is waiting in ticker.C
  recvErrors,   \* ReceiveMessage calls that returned a transport error (history)
  pollErrors,   \* the metric behind RecordSQSError / RecordSQSPollError
  hnd,          \* one invocation of an event handler: its event and its calls
  calc,         \* one call of a function of the config / event packages
  qstate,       \* qstate[m]: "visible", "inflight" or "deleted" (the queue's view)
  recv,         \* recv[m]: how many times m has been delivered
  ctxDone,      \* the root context has been cancelled
  poller,       \* the poller goroutine: [pc, batch]
  chan,         \* jobChan / eventsChan: the deliveries buffered for the pool
  started,      \* the worker goroutines Start has launched
  wpc,          \* wpc[w]: position of worker goroutine w
  wev,          \* wev[w]: the delivery worker w is processing
  wattempt,     \* wattempt[w]: attempt counter of w's retry loop
  wdelay,       \* wdelay[w]: the backoff HandleEvent / Do computed for w's wait, ms
  dpc,          \* position of the Dispatcher.dispatch goroutine
  dev,          \* the delivery dispatch has taken from eventsChan
  workerPool,   \* Dispatcher.workerPool: the workers waiting for an event
  handlerCalls, \* handlerCalls[d]: handler invocations for delivery d (history)
  handlerFails, \* handlerFails[d]: handler invocations that returned an error
  deleteCalls,  \* deleteCalls[d]: DeleteMessage calls with d's receipt handle
  offered,      \* offered[d]: d was placed in the channel
  traceID,      \* traceID[d]: event.TraceID of the event parseEvent made for d
  invalidPayload, \* invalidPayload[d]: invalid_payload counter increments for d
  refused,      \* refused[d]: the poller gave up handing d to the pool
  outcome       \* outcome[d]: "none", "success", "failed", "cancelled",
                \* "invalid_payload" or "dropped"

vars == <<pipeline, body, maxRetries, workerCount, faults, backoffBase, mainpc, tickReady,
          recvErrors, pollErrors, hnd, calc, qstate, recv, ctxDone, poller, chan, started,
          wpc, wev, wattempt, wdelay, dpc, dev, workerPool, handlerCalls, handlerFails,
          deleteCalls, offered, traceID, invalidPayload, refused, outcome, stops, comp,
          stoppc, stopChanClosed, jobChanClosed, panic, eventsTotal, httpFails, httppc,
          exitBranch>>

conf == <<pipeline, body, maxRetries, workerCount, faults, backoffBase, stops, comp,
         httpFails>>
gvars == <<httppc, exitBranch>>
svars == <<stoppc, stopChanClosed, jobChanClosed, panic>>
mvars == <<eventsTotal>>
xvars == <<mainpc, tickReady, recvErrors, pollErrors, hnd, calc>>
qvars == <<qstate, recv>>
dvars == <<dpc, dev, workerPool>>
wvars == <<wpc, wev, wattempt, wdelay>>
hist == <<handlerCalls, handlerFails, deleteCalls, offered, traceID, invalidPayload,
         refused, outcome>>

Inc(f, d) == [f EXCEPT ![d] = @ + 1]

\* Metrics.RecordEvent / RecordEventProcessed: EventsTotal with the outcome
\* label o is incremented, n times in all within one step
RecordEvent(d, o, n) == eventsTotal' = [eventsTotal EXCEPT ![d][o] = @ + n]

\* ---------------------------------------------------------------- the queue
\* ReceiveMessage returns a batch: any set of visible messages (at most 10),
\* each with a fresh receipt handle <<m, recv[m] + 1>>.  The model follows
\* NumMsgs + MaxRedeliveries deliveries in all, and 1 + MaxRedeliveries of
\* one message.
RECURSIVE SumRecv(_)
SumRecv(n) == IF n = 0 THEN 0 ELSE recv[n] + SumRecv(n - 1)
Receivable == {m \in Msgs : qstate[m] = "visible" /\ recv[m] <= MaxRedeliveries}
ReceivableSets == {S \in SUBSET Receivable :
                     SumRecv(NumMsgs) + Cardinality(S) <= NumMsgs + MaxRedeliveries}
SetToSeq(S) == LET RECURSIVE f(_, _)
                   f(T, i) == IF i > NumMsgs THEN <<>>
                              ELSE IF i \in T THEN <<i>> \o f(T, i + 1) ELSE f(T, i + 1)
               IN f(S, 1)
BatchOf(S) == [i \in 1..Len(SetToSeq(S)) |-> <<SetToSeq(S)[i], recv[SetToSeq(S)[i]] + 1>>]

\* The visibility timeout of an in-flight message elapses: it is receivable
\* again.
VisibilityTimeout(m) ==
  /\ pipeline \in {"worker", "dispatcher"}
  /\ qstate[m] = "inflight"
  /\ qstate' = [qstate EXCEPT ![m] = "visible"]
  /\ UNCHANGED <<xvars, dvars, conf, gvars, mvars, svars, recv, ctxDone, poller, chan, started, wvars, hist>>

\* main: cancel() on SIGINT/SIGTERM; in the pipeline main wires it goes on
\* to poller.Stop(), which only closes a channel, and enters dispatcher.Stop()
Cancel ==
  /\ pipeline \notin {"handler", "function", "stop"}
  /\ ~ctxDone
  /\ ctxDone' = TRUE
  /\ mainpc' = IF pipeline = "dispatcher" THEN "dispatcherStop" ELSE mainpc
  /\ UNCHANGED <<tickReady, recvErrors, pollErrors, hnd, calc, dvars, conf, gvars, mvars, svars, qvars, poller,
                 chan, started, wvars, hist>>

\* ============================================================ pipeline "worker"
\* NewWorker: jobChan has a buffer of cfg.WorkerConcurrency*2
JobChanCap == workerCount * 2

\* (mutant) the start loop runs once too often: i <= w.workerCount
Worker_StartSet_OffByOne == 1..(workerCount + 1)

\* Worker.Start: launches workerCount worker goroutines
Worker_StartSet == 1..workerCount

\* Worker.parseEvent: nil body / unmarshal error / empty id / empty
\* reservation_id / empty type are errors; anything else is an event
parseEvent(b) == /\ b.json
                 /\ b.id # ""
                 /\ b.reservation_id # ""
                 /\ b.type # ""

\* (mutant) parseEvent keeps the receipt handle of the message's first
\* delivery
parseEvent_TraceID_FirstReceipt(d) == <<d[1], 1>>

\* Worker.parseEvent: event.TraceID = *msg.ReceiptHandle, the receipt handle
\* of this delivery is kept in the event's TraceID field (over whatever
\* trace_id the body carried)
parseEvent_TraceID(d) == d

\* Worker.deleteMessage as seen by the queue: a call made with a cancelled
\* context fails; otherwise the transport decides (ok).
DeleteEffect(d, ok) ==
  /\ deleteCalls' = Inc(deleteCalls, d)
  /\ qstate' = IF ok /\ ~ctxDone THEN [qstate EXCEPT ![d[1]] = "deleted"] ELSE qstate

\* pollSQS: case <-ctx.Done() or case <-w.stopChan
Worker_pollSQS_Done ==
  /\ pipeline = "worker"
  /\ panic = "none"
  /\ poller.pc = "select"
  /\ ctxDone \/ stopChanClosed
  /\ poller' = [poller EXCEPT !.pc = "exited"]
  /\ UNCHANGED <<xvars, dvars, conf, gvars, mvars, svars, qvars, ctxDone, chan, started, wvars, hist>>

\* time.Ticker: a tick is delivered into ticker.C, whose buffer holds one
Worker_Tick ==
  /\ pipeline = "worker"
  /\ panic = "none"
  /\ poller.pc \in {"select", "batch"}
  /\ ~tickReady
  /\ tickReady' = TRUE
  /\ UNCHANGED <<mainpc, recvErrors, pollErrors, hnd, calc, dvars, conf, gvars, mvars, svars, qvars, ctxDone,
                 poller, chan, started, wvars, hist>>

\* pollSQS: case <-ticker.C, receiveAndProcessMessages up to the return of
\* the ReceiveMessage call.  The call lasts up to the wait time, so the next
\* tick may arrive before it returns.  With a cancelled context the call
\* returns an error at once.
Worker_Receive(S) ==
  /\ pipeline = "worker"
  /\ panic = "none"
  /\ poller.pc = "select"
  /\ tickReady
  /\ IF ctxDone
       THEN /\ S = {}
            /\ tickReady' = FALSE
            /\ UNCHANGED <<poller, qvars>>
       ELSE /\ S \in ReceivableSets
            /\ tickReady' \in BOOLEAN
            /\ qstate' = [m \in Msgs |-> IF m \in S THEN "inflight" ELSE qstate[m]]
            /\ recv' = [m \in Msgs |-> IF m \in S THEN recv[m] + 1 ELSE recv[m]]
            /\ poller' = IF S = {} THEN poller ELSE [pc |-> "batch", batch |-> BatchOf(S)]
  /\ UNCHANGED <<mainpc, recvErrors, pollErrors, hnd, calc, dvars, conf, gvars, mvars, svars, ctxDone, chan,
                 started, wvars, handlerCalls, handlerFails, deleteCalls, offered,
                 refused, outcome, traceID, invalidPayload>>

\* pollSQS: case <-ticker.C, ReceiveMessage returns a transport error:
\* receiveAndProcessMessages returns it, pollSQS calls RecordSQSError, logs
\* and goes back to its select
Worker_Receive_Error ==
  /\ pipeline = "worker"
  /\ panic = "none"
  /\ poller.pc = "select"
  /\ tickReady
  /\ ~ctxDone
  /\ recvErrors < faults
  /\ tickReady' \in BOOLEAN
  /\ recvErrors' = recvErrors + 1
  /\ pollErrors' = pollErrors + 1
  /\ UNCHANGED <<mainpc, hnd, calc, dvars, conf, gvars, mvars, svars, qvars, ctxDone, poller, chan, started,
                 wvars, hist>>

\* receiveAndProcessMessages: one iteration of the loop over resp.Messages
NextPollerState == IF Len(poller.batch) = 1
                     THEN [pc |-> "select", batch |-> <<>>]
                     ELSE [pc |-> "batch", batch |-> Tail(poller.batch)]

\* ... parseEvent failed: the message is deleted
Worker_Malformed(ok) ==
  /\ pipeline = "worker"
  /\ panic = "none"
  /\ poller.pc = "batch"
  /\ LET d == Head(poller.batch) IN
       /\ ~parseEvent(body[d[1]])
       /\ DeleteEffect(d, ok)
  /\ poller' = NextPollerState
  /\ UNCHANGED <<xvars, dvars, conf, gvars, mvars, svars, recv, ctxDone, chan, started, wvars, handlerCalls,
                 handlerFails, offered, refused, outcome, traceID, invalidPayload>>

\* ... case w.jobChan <- event
Worker_Send ==
  /\ pipeline = "worker"
  /\ panic = "none"
  /\ poller.pc = "batch"
  /\ LET d == Head(poller.batch) IN
       /\ parseEvent(body[d[1]])
       /\ ~jobChanClosed
       /\ Len(chan) < JobChanCap
       /\ chan' = Append(chan, d)
       /\ offered' = [offered EXCEPT ![d] = TRUE]
       /\ traceID' = [traceID EXCEPT ![d] = parseEvent_TraceID(d)]
  /\ poller' = NextPollerState
  /\ UNCHANGED <<xvars, dvars, conf, gvars, mvars, svars, qvars, ctxDone, started, wvars, handlerCalls,
                 handlerFails, deleteCalls, refused, outcome, invalidPayload>>

\* ... case w.jobChan <- event when Stop has closed jobChan: a send on a
\* closed channel is a ready case of the select whatever the buffer holds,
\* and it panics; the panic ends the process
Worker_Send_Closed ==
  /\ pipeline = "worker"
  /\ panic = "none"
  /\ poller.pc = "batch"
  /\ parseEvent(body[Head(poller.batch)[1]])
  /\ jobChanClosed
  /\ panic' = "send on closed channel"
  /\ poller' = [poller EXCEPT !.pc = "panicked"]
  /\ UNCHANGED <<xvars, dvars, conf, gvars, mvars, stoppc, stopChanClosed, jobChanClosed, qvars,
                 ctxDone, chan, started, wvars, hist>>

\* ... case <-ctx.Done(): return ctx.Err(), the rest of the batch is dropped
Worker_SendCancelled ==
  /\ pipeline = "worker"
  /\ panic = "none"
  /\ poller.pc = "batch"
  /\ parseEvent(body[Head(poller.batch)[1]])
  /\ ctxDone
  /\ poller' = [pc |-> "select", batch |-> <<>>]
  /\ UNCHANGED <<xvars, dvars, conf, gvars, mvars, svars, qvars, ctxDone, chan, started, wvars, hist>>

\* (mutant) the default branch deletes the message it could not hand over
Worker_PoolFull_Deletes ==
  /\ pipeline = "worker"
  /\ panic = "none"
  /\ poller.pc = "batch"
  /\ LET d == Head(poller.batch) IN
       /\ parseEvent(body[d[1]])
       /\ ~jobChanClosed
       /\ Len(chan) >= JobChanCap
       /\ ~ctxDone
       /\ refused' = [refused EXCEPT ![d] = TRUE]
       /\ DeleteEffect(d, TRUE)
  /\ poller' = NextPollerState
  /\ UNCHANGED <<xvars, dvars, conf, gvars, mvars, svars, recv, ctxDone, chan, started, wvars, handlerCalls,
                 handlerFails, offered, outcome, traceID, invalidPayload>>

\* ... default: the pool is full, the message is neither sent nor deleted
Worker_PoolFull ==
  /\ pipeline = "worker"
  /\ panic = "none"
  /\ poller.pc = "batch"
  /\ LET d == Head(poller.batch) IN
       /\ parseEvent(body[d[1]])
       /\ ~jobChanClosed
       /\ Len(chan) >= JobChanCap
       /\ ~ctxDone
       /\ refused' = [refused EXCEPT ![d] = TRUE]
  /\ poller' = NextPollerState
  /\ UNCHANGED <<xvars, dvars, conf, gvars, mvars, svars, qvars, ctxDone, chan, started, wvars, handlerCalls,
                 handlerFails, deleteCalls, offered, outcome, traceID, invalidPayload>>

\* ------------------------------------------------ backoff.ExponentialBackOff
\* processEventWithRetry configures InitialInterval = backoffBase, MaxInterval
\* = 2 min, MaxElapsedTime = 5 min and keeps the library's Multiplier 1.5 and
\* RandomizationFactor 0.5.  k counts the NextBackOff calls already made.
RECURSIVE CurrentInterval(_)
CurrentInterval(k) == IF k = 0 THEN BackoffBaseMs
                      ELSE Min((CurrentInterval(k - 1) * 3) \div 2, MaxIntervalMs)
\* the randomized interval lies in [RandomizedLo(k), RandomizedHi(k)]
RandomizedLo(k) == CurrentInterval(k) - CurrentInterval(k) \div 2
RandomizedHi(k) == CurrentInterval(k) + CurrentInterval(k) \div 2
\* least and greatest time elapsed when NextBackOff is called for the k-th
\* time: the waits made so far, plus k + 1 handler calls that each last
\* between 0 and the downstream timeout
RECURSIVE ElapsedLo(_)
ElapsedLo(k) == IF k = 0 THEN 0 ELSE ElapsedLo(k - 1) + RandomizedLo(k - 1)
RECURSIVE ElapsedHi(_)
ElapsedHi(k) == IF k = 0 THEN HandlerTimeoutMs
                ELSE ElapsedHi(k - 1) + RandomizedHi(k - 1) + HandlerTimeoutMs
\* NextBackOff returns Stop when elapsed + next > MaxElapsedTime: some run
\* gets a wait from call k / some run gets Stop from call k
MayWait(k) == ElapsedLo(k) + RandomizedLo(k) <= MaxElapsedTimeMs
MayStop(k) == ElapsedHi(k) + RandomizedHi(k) > MaxElapsedTimeMs

\* EventHandlerImpl.Handle: the default branch of the switch is an error
Handle_KnownType(b) == b.type \in WorkerEventTypes

\* Worker.Start
Worker_Start ==
  /\ pipeline = "worker"
  /\ panic = "none"
  /\ poller.pc = "init"
  /\ started' = Worker_StartSet
  /\ wpc' = [w \in WorkerIds |-> IF w \in Worker_StartSet THEN "idle" ELSE wpc[w]]
  /\ poller' = [poller EXCEPT !.pc = "select"]
  /\ UNCHANGED <<xvars, dvars, conf, gvars, mvars, svars, qvars, ctxDone, chan, wev, wattempt, hist, wdelay>>

\* worker: case <-ctx.Done(), case <-w.stopChan, or the receive from the
\* closed and drained jobChan (!ok)
Worker_worker_Done(w) ==
  /\ pipeline = "worker"
  /\ panic = "none"
  /\ wpc[w] = "idle"
  /\ ctxDone \/ stopChanClosed \/ (jobChanClosed /\ chan = <<>>)
  /\ wpc' = [wpc EXCEPT ![w] = "exited"]
  /\ UNCHANGED <<xvars, dvars, conf, gvars, mvars, svars, qvars, ctxDone, poller, chan, started, wev, wattempt,
                 hist, wdelay>>

\* worker: case event := <-w.jobChan, then processEventWithRetry up to the
\* first call of the handler (backoff.Retry calls the operation first)
Worker_worker_Job(w) ==
  /\ pipeline = "worker"
  /\ panic = "none"
  /\ wpc[w] = "idle"
  /\ chan # <<>>
  /\ chan' = Tail(chan)
  /\ wev' = [wev EXCEPT ![w] = Head(chan)]
  /\ wattempt' = [wattempt EXCEPT ![w] = 1]
  /\ wpc' = [wpc EXCEPT ![w] = "handling"]
  /\ handlerCalls' = Inc(handlerCalls, Head(chan))
  /\ UNCHANGED <<xvars, dvars, conf, gvars, mvars, svars, qvars, ctxDone, poller, started, handlerFails,
                 deleteCalls, offered, refused, outcome, wdelay, traceID, invalidPayload>>

\* operation: w.handler.Handle returned nil (its downstream calls carry the
\* context, so they succeed only while it is not cancelled); Handle has
\* recorded the outcome success
Worker_HandleOk(w) ==
  /\ pipeline = "worker"
  /\ panic = "none"
  /\ wpc[w] = "handling"
  /\ Handle_KnownType(body[wev[w][1]])
  /\ ~ctxDone
  /\ wpc' = [wpc EXCEPT ![w] = "deleting"]
  /\ RecordEvent(wev[w], "success", 1)
  /\ UNCHANGED <<xvars, dvars, conf, gvars, svars, qvars, ctxDone, poller, chan, started, wev, wattempt,
                 hist, wdelay>>

\* (mutant) the operation returns deleteMessage's error, so backoff.Retry
\* waits and runs the operation again
Worker_Delete_ReturnsError(w, ok) ==
  /\ pipeline = "worker"
  /\ panic = "none"
  /\ wpc[w] = "deleting"
  /\ DeleteEffect(traceID[wev[w]], ok)
  /\ IF ok /\ ~ctxDone
       THEN /\ outcome' = [outcome EXCEPT ![wev[w]] = "success"]
            /\ wpc' = [wpc EXCEPT ![w] = "idle"]
            /\ wev' = [wev EXCEPT ![w] = None]
            /\ wattempt' = [wattempt EXCEPT ![w] = 0]
       ELSE /\ wpc' = [wpc EXCEPT ![w] = "backoff"]
            /\ UNCHANGED <<wev, wattempt, outcome>>
  /\ UNCHANGED <<xvars, dvars, conf, gvars, mvars, svars, recv, ctxDone, poller, chan, started, handlerCalls,
                 handlerFails, offered, refused, wdelay, traceID, invalidPayload>>

\* operation: deleteMessage(ctx, &event.TraceID) after the handler's success;
\* its error is only logged, the operation returns nil and backoff.Retry returns nil
Worker_Delete(w, ok) ==
  /\ pipeline = "worker"
  /\ panic = "none"
  /\ wpc[w] = "deleting"
  /\ DeleteEffect(traceID[wev[w]], ok)
  /\ outcome' = [outcome EXCEPT ![wev[w]] = "success"]
  /\ wpc' = [wpc EXCEPT ![w] = "idle"]
  /\ wev' = [wev EXCEPT ![w] = None]
  /\ wattempt' = [wattempt EXCEPT ![w] = 0]
  /\ UNCHANGED <<xvars, dvars, conf, gvars, mvars, svars, recv, ctxDone, poller, chan, started, handlerCalls,
                 handlerFails, offered, refused, wdelay, traceID, invalidPayload>>

\* backoff.Retry after the operation returned an error: NextBackOff is Stop
\* when the context is done or the elapsed time is used up (stop), otherwise
\* the timer is started.  w.maxRetries is not consulted.
Worker_RetryDecision(w, stop) ==
  IF ctxDone THEN "cancelled"
  ELSE IF stop /\ MayStop(wattempt[w] - 1) THEN "failed"
  ELSE IF ~stop /\ MayWait(wattempt[w] - 1) /\ wattempt[w] < AttemptCap THEN "backoff"
  ELSE "none"

\* operation: w.handler.Handle returned an error, after recording the
\* outcome failed; when backoff.Retry gives up, processEventWithRetry records
\* failed as well
Worker_HandleErr(w, stop) ==
  /\ pipeline = "worker"
  /\ panic = "none"
  /\ wpc[w] = "handling"
  /\ Worker_RetryDecision(w, stop) # "none"
  /\ handlerFails' = Inc(handlerFails, wev[w])
  /\ IF Worker_RetryDecision(w, stop) = "backoff"
       THEN /\ wpc' = [wpc EXCEPT ![w] = "backoff"]
            /\ UNCHANGED <<wev, wattempt, outcome>>
       ELSE /\ outcome' = [outcome EXCEPT ![wev[w]] = Worker_RetryDecision(w, stop)]
            /\ wpc' = [wpc EXCEPT ![w] = "idle"]
            /\ wev' = [wev EXCEPT ![w] = None]
            /\ wattempt' = [wattempt EXCEPT ![w] = 0]
  /\ IF Worker_RetryDecision(w, stop) = "backoff"
       THEN RecordEvent(wev[w], "failed", 1)
       ELSE RecordEvent(wev[w], "failed", 2)
  /\ UNCHANGED <<xvars, dvars, conf, gvars, svars, qvars, ctxDone, poller, chan, started, handlerCalls,
                 deleteCalls, offered, refused, wdelay, traceID, invalidPayload>>

\* backoff.Retry: case <-t.C(), the operation is called again
Worker_BackoffFired(w) ==
  /\ pipeline = "worker"
  /\ panic = "none"
  /\ wpc[w] = "backoff"
  /\ wattempt' = [wattempt EXCEPT ![w] = @ + 1]
  /\ wpc' = [wpc EXCEPT ![w] = "handling"]
  /\ handlerCalls' = Inc(handlerCalls, wev[w])
  /\ UNCHANGED <<xvars, dvars, conf, gvars, mvars, svars, qvars, ctxDone, poller, chan, started, wev,
                 handlerFails, deleteCalls, offered, refused, outcome, wdelay, traceID,
                 invalidPayload>>

\* backoff.Retry: case <-ctx.Done(), return ctx.Err()
Worker_BackoffCancelled(w) ==
  /\ pipeline = "worker"
  /\ panic = "none"
  /\ wpc[w] = "backoff"
  /\ ctxDone
  /\ outcome' = [outcome EXCEPT ![wev[w]] = "cancelled"]
  /\ wpc' = [wpc EXCEPT ![w] = "idle"]
  /\ wev' = [wev EXCEPT ![w] = None]
  /\ wattempt' = [wattempt EXCEPT ![w] = 0]
  /\ RecordEvent(wev[w], "failed", 1)
  /\ UNCHANGED <<xvars, dvars, conf, gvars, svars, qvars, ctxDone, poller, chan, started, handlerCalls,
                 handlerFails, deleteCalls, offered, refused, wdelay, traceID,
                 invalidPayload>>

\* ======================================================== pipeline "dispatcher"
\* NewDispatcher: eventsChan has a buffer of config.WorkerConcurrency*2
EventsChanCap == workerCount * 2

\* Dispatcher.Start: launches d.concurrency workers and the dispatch loop
Dispatcher_StartSet == 1..workerCount

\* SQSPoller.processMessage: a nil body or an unmarshal error is an error; no
\* field is validated, an empty event.ID is replaced by the message id
processMessage_Parses(b) == b.json

\* Dispatcher.HandleEvent: the switch on event.Type has a handler
HandleEvent_KnownType(b) == b.type \in DispatcherEventTypes

\* main: dispatcher.Start(ctx) and poller.Start(ctx).  The worker goroutines
\* are internal/worker's dispatcher-side Worker, whose source is not in the
\* tree: each registers itself in workerPool, waits for an event on its own
\* channel and calls Dispatcher.HandleEvent(ctx, event, 0).
Dispatcher_Start ==
  /\ pipeline = "dispatcher"
  /\ mainpc # "exited"
  /\ dpc = "init"
  /\ started' = Dispatcher_StartSet
  /\ wpc' = [w \in WorkerIds |-> IF w \in Dispatcher_StartSet THEN "idle" ELSE wpc[w]]
  /\ workerPool' = SetToSeq(Dispatcher_StartSet)
  /\ dpc' = "select"
  /\ UNCHANGED <<xvars, dev, conf, gvars, mvars, svars, qvars, ctxDone, poller, chan, wev,
                 wattempt, hist, wdelay>>

\* main: go poller.Start(ctx), a goroutine of its own beside the one that
\* runs dispatcher.Start; SQSPoller.Start enters its loop
SQSPoller_Start ==
  /\ pipeline = "dispatcher"
  /\ mainpc # "exited"
  /\ poller.pc = "init"
  /\ poller' = [poller EXCEPT !.pc = "select"]
  /\ UNCHANGED <<xvars, dvars, conf, gvars, mvars, svars, qvars, ctxDone, chan, started, wvars,
                 hist>>

\* SQSPoller.Start: case <-ctx.Done()
SQSPoller_Start_Done ==
  /\ pipeline = "dispatcher"
  /\ mainpc # "exited"
  /\ poller.pc = "select"
  /\ ctxDone
  /\ poller' = [poller EXCEPT !.pc = "exited"]
  /\ UNCHANGED <<xvars, dvars, conf, gvars, mvars, svars, qvars, ctxDone, chan, started, wvars, hist>>

\* SQSPoller.Start: default, pollOnce up to the ReceiveMessage call (the
\* default case runs only while no other case is ready)
SQSPoller_pollOnce(S) ==
  /\ pipeline = "dispatcher"
  /\ mainpc # "exited"
  /\ poller.pc = "select"
  /\ ~ctxDone
  /\ S \in ReceivableSets
  /\ qstate' = [m \in Msgs |-> IF m \in S THEN "inflight" ELSE qstate[m]]
  /\ recv' = [m \in Msgs |-> IF m \in S THEN recv[m] + 1 ELSE recv[m]]
  /\ poller' = IF S = {} THEN poller ELSE [pc |-> "batch", batch |-> BatchOf(S)]
  /\ UNCHANGED <<xvars, dvars, conf, gvars, mvars, svars, ctxDone, chan, started, wvars, hist>>

\* SQSPoller.Start: default, pollOnce returns the transport error of
\* ReceiveMessage: RecordSQSPollError, then time.Sleep(5 * time.Second)
SQSPoller_pollOnce_Error ==
  /\ pipeline = "dispatcher"
  /\ mainpc # "exited"
  /\ poller.pc = "select"
  /\ ~ctxDone
  /\ recvErrors < faults
  /\ recvErrors' = recvErrors + 1
  /\ pollErrors' = pollErrors + 1
  /\ poller' = [poller EXCEPT !.pc = "sleep"]
  /\ UNCHANGED <<mainpc, tickReady, hnd, calc, dvars, conf, gvars, mvars, svars, qvars, ctxDone, chan, started,
                 wvars, hist>>

\* SQSPoller.Start: the sleep after an error is over, back to the select
SQSPoller_SleepOver ==
  /\ pipeline = "dispatcher"
  /\ mainpc # "exited"
  /\ poller.pc = "sleep"
  /\ poller' = [poller EXCEPT !.pc = "select"]
  /\ UNCHANGED <<xvars, dvars, conf, gvars, mvars, svars, qvars, ctxDone, chan, started, wvars, hist>>

\* pollOnce: processMessage returned an unmarshal error; continue
SQSPoller_ParseError ==
  /\ pipeline = "dispatcher"
  /\ mainpc # "exited"
  /\ poller.pc = "batch"
  /\ ~processMessage_Parses(body[Head(poller.batch)[1]])
  /\ poller' = NextPollerState
  /\ UNCHANGED <<xvars, dvars, conf, gvars, mvars, svars, qvars, ctxDone, chan, started, wvars, hist>>

\* processMessage: case p.eventsChan <- &event, return nil
SQSPoller_Send ==
  /\ pipeline = "dispatcher"
  /\ mainpc # "exited"
  /\ poller.pc = "batch"
  /\ LET d == Head(poller.batch) IN
       /\ processMessage_Parses(body[d[1]])
       /\ Len(chan) < EventsChanCap
       /\ chan' = Append(chan, d)
       /\ offered' = [offered EXCEPT ![d] = TRUE]
  /\ poller' = [poller EXCEPT !.pc = "delete"]
  /\ UNCHANGED <<xvars, dvars, conf, gvars, mvars, svars, qvars, ctxDone, started, wvars, handlerCalls,
                 handlerFails, deleteCalls, refused, outcome, traceID, invalidPayload>>

\* pollOnce: p.deleteMessage after processMessage returned nil
SQSPoller_Delete(ok) ==
  /\ pipeline = "dispatcher"
  /\ mainpc # "exited"
  /\ poller.pc = "delete"
  /\ DeleteEffect(Head(poller.batch), ok)
  /\ poller' = NextPollerState
  /\ UNCHANGED <<xvars, dvars, conf, gvars, mvars, svars, recv, ctxDone, chan, started, wvars, handlerCalls,
                 handlerFails, offered, refused, outcome, traceID, invalidPayload>>

\* processMessage: case <-ctx.Done(), return ctx.Err(); pollOnce continues
\* with the next message
SQSPoller_SendCancelled ==
  /\ pipeline = "dispatcher"
  /\ mainpc # "exited"
  /\ poller.pc = "batch"
  /\ processMessage_Parses(body[Head(poller.batch)[1]])
  /\ ctxDone
  /\ poller' = NextPollerState
  /\ UNCHANGED <<xvars, dvars, conf, gvars, mvars, svars, qvars, ctxDone, chan, started, wvars, hist>>

\* processMessage: case <-time.After(30 * time.Second), the channel stayed
\* full; pollOnce continues without deleting
SQSPoller_SendTimeout ==
  /\ pipeline = "dispatcher"
  /\ mainpc # "exited"
  /\ poller.pc = "batch"
  /\ LET d == Head(poller.batch) IN
       /\ processMessage_Parses(body[d[1]])
       /\ Len(chan) >= EventsChanCap
       /\ refused' = [refused EXCEPT ![d] = TRUE]
  /\ poller' = NextPollerState
  /\ UNCHANGED <<xvars, dvars, conf, gvars, mvars, svars, qvars, ctxDone, chan, started, wvars, handlerCalls,
                 handlerFails, deleteCalls, offered, outcome, traceID, invalidPayload>>

\* dispatch: case <-ctx.Done()
dispatch_Done ==
  /\ pipeline = "dispatcher"
  /\ mainpc # "exited"
  /\ dpc = "select"
  /\ ctxDone
  /\ dpc' = "exited"
  /\ UNCHANGED <<xvars, dev, workerPool, conf, gvars, mvars, svars, qvars, ctxDone, poller, chan, started,
                 wvars, hist>>

\* dispatch: case event := <-d.eventsChan
dispatch_Event ==
  /\ pipeline = "dispatcher"
  /\ mainpc # "exited"
  /\ dpc = "select"
  /\ chan # <<>>
  /\ dev' = Head(chan)
  /\ chan' = Tail(chan)
  /\ dpc' = "worker"
  /\ UNCHANGED <<xvars, workerPool, conf, gvars, mvars, svars, qvars, ctxDone, poller, started, wvars, hist>>

\* dispatch: case <-time.After(30 * time.Second), no worker registered: the
\* event is logged and dropped
dispatch_NoWorker ==
  /\ pipeline = "dispatcher"
  /\ mainpc # "exited"
  /\ dpc = "worker"
  /\ workerPool = <<>>
  /\ outcome' = [outcome EXCEPT ![dev] = "dropped"]
  /\ dev' = None
  /\ dpc' = "select"
  /\ UNCHANGED <<xvars, workerPool, conf, gvars, mvars, svars, qvars, ctxDone, poller, chan, started, wvars,
                 handlerCalls, handlerFails, deleteCalls, offered, refused, traceID,
                 invalidPayload>>

\* dispatch: case workerChan := <-d.workerPool, then the 5 s timeout of the
\* send: the worker has gone, the event is logged and dropped
dispatch_WorkerGone ==
  /\ pipeline = "dispatcher"
  /\ mainpc # "exited"
  /\ dpc = "worker"
  /\ workerPool # <<>>
  /\ wpc[Head(workerPool)] = "exited"
  /\ workerPool' = Tail(workerPool)
  /\ outcome' = [outcome EXCEPT ![dev] = "dropped"]
  /\ dev' = None
  /\ dpc' = "select"
  /\ UNCHANGED <<xvars, conf, gvars, mvars, svars, qvars, ctxDone, poller, chan, started, wvars, handlerCalls,
                 handlerFails, deleteCalls, offered, refused, traceID, invalidPayload>>

\* dispatch: case workerChan := <-d.workerPool, case workerChan <- event; the
\* worker calls HandleEvent(ctx, event, 0).  HandleEvent's default branch
\* (unknown type) records invalid_payload and returns without a handler call.
dispatch_Hand ==
  /\ pipeline = "dispatcher"
  /\ mainpc # "exited"
  /\ dpc = "worker"
  /\ workerPool # <<>>
  /\ LET w == Head(workerPool) IN
       /\ wpc[w] = "idle"
       /\ IF HandleEvent_KnownType(body[dev[1]])
            THEN /\ wpc' = [wpc EXCEPT ![w] = "handling"]
                 /\ wev' = [wev EXCEPT ![w] = dev]
                 /\ handlerCalls' = Inc(handlerCalls, dev)
                 /\ workerPool' = Tail(workerPool)
                 /\ UNCHANGED <<outcome, invalidPayload>>
            ELSE /\ outcome' = [outcome EXCEPT ![dev] = "invalid_payload"]
                 /\ invalidPayload' = Inc(invalidPayload, dev)
                 /\ workerPool' = Append(Tail(workerPool), w)
                 /\ UNCHANGED <<wpc, wev, handlerCalls>>
  /\ dev' = None
  /\ dpc' = "select"
  /\ UNCHANGED <<xvars, conf, gvars, mvars, svars, qvars, ctxDone, poller, chan, started, wattempt,
                 handlerFails, deleteCalls, offered, refused, wdelay, traceID>>

\* the worker: case <-ctx.Done() while waiting for an event
DWorker_Done(w) ==
  /\ pipeline = "dispatcher"
  /\ mainpc # "exited"
  /\ wpc[w] = "idle"
  /\ ctxDone
  /\ wpc' = [wpc EXCEPT ![w] = "exited"]
  /\ UNCHANGED <<xvars, dvars, conf, gvars, mvars, svars, qvars, ctxDone, poller, chan, started, wev, wattempt,
                 hist, wdelay>>

\* HandleEvent: the handler returned nil; success is recorded
HandleEvent_Ok(w) ==
  /\ pipeline = "dispatcher"
  /\ mainpc # "exited"
  /\ wpc[w] = "handling"
  /\ ~ctxDone
  /\ outcome' = [outcome EXCEPT ![wev[w]] = "success"]
  /\ wpc' = [wpc EXCEPT ![w] = "idle"]
  /\ wev' = [wev EXCEPT ![w] = None]
  /\ wattempt' = [wattempt EXCEPT ![w] = 0]
  /\ workerPool' = Append(workerPool, w)
  /\ RecordEvent(wev[w], "success", 1)
  /\ UNCHANGED <<xvars, dpc, dev, conf, gvars, svars, qvars, ctxDone, poller, chan, started,
                 handlerCalls, handlerFails, deleteCalls, offered, refused, wdelay,
                 traceID, invalidPayload>>

\* Config.GetBackoffDuration of the configuration main loads: the multiplier
\* doubles for i < attempt && i < 4
RECURSIVE GetBackoffDuration_multiplier(_)
GetBackoffDuration_multiplier(attempt) ==
  IF attempt <= 0 THEN 1
  ELSE IF attempt > 4 THEN GetBackoffDuration_multiplier(4)
  ELSE 2 * GetBackoffDuration_multiplier(attempt - 1)
GetBackoffDuration(base, attempt) == base * GetBackoffDuration_multiplier(attempt)

\* HandleEvent: if attempt >= d.config.MaxRetries
HandleEvent_MaxRetriesReached(attempt) == attempt >= maxRetries

\* HandleEvent: the handler returned an error: terminal failure when the
\* retries are used up, otherwise time.Sleep(backoffDuration)
HandleEvent_Err(w) ==
  /\ pipeline = "dispatcher"
  /\ mainpc # "exited"
  /\ wpc[w] = "handling"
  /\ handlerFails' = Inc(handlerFails, wev[w])
  /\ IF HandleEvent_MaxRetriesReached(wattempt[w])
       THEN /\ outcome' = [outcome EXCEPT ![wev[w]] = "failed"]
            /\ wpc' = [wpc EXCEPT ![w] = "idle"]
            /\ wev' = [wev EXCEPT ![w] = None]
            /\ wattempt' = [wattempt EXCEPT ![w] = 0]
            /\ workerPool' = Append(workerPool, w)
            /\ UNCHANGED wdelay
       ELSE /\ wpc' = [wpc EXCEPT ![w] = "backoff"]
            /\ wdelay' = [wdelay EXCEPT ![w] = GetBackoffDuration(backoffBase, wattempt[w])]
            /\ UNCHANGED <<wev, wattempt, workerPool, outcome>>
  /\ IF HandleEvent_MaxRetriesReached(wattempt[w])
       THEN RecordEvent(wev[w], "failed", 1)
       ELSE RecordEvent(wev[w], "retried", 1)
  /\ UNCHANGED <<xvars, dpc, dev, conf, gvars, svars, qvars, ctxDone, poller, chan, started,
                 handlerCalls, deleteCalls, offered, refused, traceID,
                 invalidPayload>>

\* HandleEvent: time.Sleep is over, return d.HandleEvent(ctx, event, attempt+1);
\* the sleep and the recursive call do not look at the context
HandleEvent_Retry(w) ==
  /\ pipeline = "dispatcher"
  /\ mainpc # "exited"
  /\ wpc[w] = "backoff"
  /\ wattempt' = [wattempt EXCEPT ![w] = @ + 1]
  /\ wpc' = [wpc EXCEPT ![w] = "handling"]
  /\ wdelay' = [wdelay EXCEPT ![w] = 0]
  /\ handlerCalls' = Inc(handlerCalls, wev[w])
  /\ UNCHANGED <<xvars, dvars, conf, gvars, mvars, svars, qvars, ctxDone, poller, chan, started, wev,
                 handlerFails, deleteCalls, offered, refused, outcome, traceID,
                 invalidPayload>>

\* =========================================================== pipeline "retryer"
\* retry.Retryer.Do wrapped around the handling of one delivery, as in the
\* README's dispatcher sketch: retryer.Do(ctx, "handle_event", fn).  The
\* goroutine is worker 1, the delivery is RetryerDelivery.
RetryerDelivery == <<1, 1>>

\* Do: for attempt := 0; attempt < r.config.MaxRetries; attempt++
Retryer_LoopCondition(attempt) == attempt < maxRetries

\* Do: if attempt == r.config.MaxRetries-1 { break }
Retryer_LastAttempt(attempt) == attempt = maxRetries - 1

\* Do: the top of the loop body reached with the given attempt number: the
\* context is checked, then fn is called
Retryer_Enter(attempt) ==
  /\ wattempt' = [wattempt EXCEPT ![1] = attempt]
  /\ wev' = [wev EXCEPT ![1] = RetryerDelivery]
  /\ wdelay' = [wdelay EXCEPT ![1] = 0]
  /\ IF ~Retryer_LoopCondition(attempt)
       THEN /\ outcome' = [outcome EXCEPT ![RetryerDelivery] = "failed"]
            /\ wpc' = [wpc EXCEPT ![1] = "returned"]
            /\ UNCHANGED handlerCalls
       ELSE IF ctxDone
       THEN /\ outcome' = [outcome EXCEPT ![RetryerDelivery] = "cancelled"]
            /\ wpc' = [wpc EXCEPT ![1] = "returned"]
            /\ UNCHANGED handlerCalls
       ELSE /\ wpc' = [wpc EXCEPT ![1] = "handling"]
            /\ handlerCalls' = Inc(handlerCalls, RetryerDelivery)
            /\ UNCHANGED outcome

\* a caller invokes Do
Retryer_Do ==
  /\ pipeline = "retryer"
  /\ wpc[1] = "none"
  /\ Retryer_Enter(0)
  /\ UNCHANGED <<xvars, dvars, conf, gvars, mvars, svars, qvars, ctxDone, poller, chan, started, handlerFails,
                 deleteCalls, offered, refused, traceID, invalidPayload>>

\* Do: fn returned nil
Retryer_FnOk ==
  /\ pipeline = "retryer"
  /\ wpc[1] = "handling"
  /\ ~ctxDone
  /\ outcome' = [outcome EXCEPT ![RetryerDelivery] = "success"]
  /\ wpc' = [wpc EXCEPT ![1] = "returned"]
  /\ UNCHANGED <<xvars, dvars, conf, gvars, mvars, svars, qvars, ctxDone, poller, chan, started, wev, wattempt,
                 handlerCalls, handlerFails, deleteCalls, offered, refused, wdelay,
                 traceID, invalidPayload>>

\* Do: fn returned an error: break on the last attempt, otherwise wait
Retryer_FnErr ==
  /\ pipeline = "retryer"
  /\ wpc[1] = "handling"
  /\ handlerFails' = Inc(handlerFails, RetryerDelivery)
  /\ IF Retryer_LastAttempt(wattempt[1])
       THEN /\ outcome' = [outcome EXCEPT ![RetryerDelivery] = "failed"]
            /\ wpc' = [wpc EXCEPT ![1] = "returned"]
            /\ UNCHANGED wdelay
       ELSE /\ wpc' = [wpc EXCEPT ![1] = "backoff"]
            /\ wdelay' = [wdelay EXCEPT ![1] = GetBackoffDuration(backoffBase, wattempt[1])]
            /\ UNCHANGED outcome
  /\ UNCHANGED <<xvars, dvars, conf, gvars, mvars, svars, qvars, ctxDone, poller, chan, started, wev, wattempt,
                 handlerCalls, deleteCalls, offered, refused, traceID,
                 invalidPayload>>

\* Do: case <-time.After(backoff), attempt++ and the next iteration
Retryer_BackoffFired ==
  /\ pipeline = "retryer"
  /\ wpc[1] = "backoff"
  /\ Retryer_Enter(wattempt[1] + 1)
  /\ UNCHANGED <<xvars, dvars, conf, gvars, mvars, svars, qvars, ctxDone, poller, chan, started, handlerFails,
                 deleteCalls, offered, refused, traceID, invalidPayload>>

\* Do: case <-ctx.Done() during the wait, return ctx.Err()
Retryer_BackoffCancelled ==
  /\ pipeline = "retryer"
  /\ wpc[1] = "backoff"
  /\ ctxDone
  /\ outcome' = [outcome EXCEPT ![RetryerDelivery] = "cancelled"]
  /\ wpc' = [wpc EXCEPT ![1] = "returned"]
  /\ wdelay' = [wdelay EXCEPT ![1] = 0]
  /\ UNCHANGED <<xvars, dvars, conf, gvars, mvars, svars, qvars, ctxDone, poller, chan, started, wev, wattempt,
                 handlerCalls, handlerFails, deleteCalls, offered, refused,
                 traceID, invalidPayload>>

\* ======================================================================= main
\* main after the signal: cancel(); poller.Stop(); dispatcher.Stop();
\* grpcServer.Stop(); then select { <-done; <-time.After(30 s) }.
\* Dispatcher.Stop: close(d.stopChan); d.wg.Wait() returns when the dispatch
\* goroutine and every worker goroutine that Start has added have returned
Main_DispatcherStop_Return ==
  /\ pipeline = "dispatcher"
  /\ mainpc = "dispatcherStop"
  /\ dpc \in {"init", "exited"}
  /\ \A w \in started : wpc[w] = "exited"
  /\ mainpc' = "wait"
  /\ UNCHANGED <<tickReady, recvErrors, pollErrors, hnd, calc, dvars, conf, gvars, mvars, svars, qvars,
                 ctxDone, poller, chan, started, wvars, hist>>

\* startHTTPServer: server.ListenAndServe returns an error (the port is
\* taken) and the goroutine returns; nothing else makes it return, main
\* never shuts the HTTP server down
HTTP_ListenFails ==
  /\ pipeline = "dispatcher"
  /\ mainpc # "exited"
  /\ httpFails
  /\ httppc = "serving"
  /\ httppc' = "returned"
  /\ UNCHANGED <<mainpc, tickReady, recvErrors, pollErrors, hnd, calc, dvars, conf,
                 exitBranch, mvars, svars, qvars, ctxDone, poller, chan, started, wvars,
                 hist>>

\* the goroutines main has added to its WaitGroup have all returned: the
\* HTTP server, the gRPC server (its Start returns once the context is
\* cancelled), the call of dispatcher.Start and the call of poller.Start
Main_WaitGroupDone ==
  /\ httppc = "returned"
  /\ ctxDone
  /\ dpc # "init"
  /\ poller.pc = "exited"

\* main: grpcServer.Stop() has returned and the select is reached: case
\* <-done, "Graceful shutdown completed"; main returns
Main_Exit ==
  /\ pipeline = "dispatcher"
  /\ mainpc = "wait"
  /\ Main_WaitGroupDone
  /\ mainpc' = "exited"
  /\ exitBranch' = "graceful"
  /\ UNCHANGED <<tickReady, recvErrors, pollErrors, hnd, calc, dvars, conf, httppc, mvars,
                 svars, qvars, ctxDone, poller, chan, started, wvars, hist>>

\* main: case <-time.After(30 * time.Second), "Shutdown timeout exceeded,
\* forcing exit"; main returns
Main_Exit_Timeout ==
  /\ pipeline = "dispatcher"
  /\ mainpc = "wait"
  /\ mainpc' = "exited"
  /\ exitBranch' = "timeout"
  /\ UNCHANGED <<tickReady, recvErrors, pollErrors, hnd, calc, dvars, conf, httppc, mvars,
                 svars, qvars, ctxDone, poller, chan, started, wvars, hist>>

\* ================================================================ Stop methods
\* The Stop of a component, called by up to stops callers that may overlap.
\* In the pipeline "worker" the component is the running Worker; in the
\* pipeline "stop" it is a component that was constructed and not started.
Component == IF pipeline = "worker" THEN "Worker" ELSE comp
StopCallers == 1..MaxStopCalls

\* a caller enters Stop (of a Worker that runs: after Start)
Stop_Call(c) ==
  /\ pipeline \in {"worker", "stop"}
  /\ panic = "none"
  /\ c <= stops
  /\ stoppc[c] = "none"
  /\ pipeline = "worker" => poller.pc # "init"
  /\ stoppc' = [stoppc EXCEPT ![c] = "stopChan"]
  /\ UNCHANGED <<xvars, dvars, conf, gvars, mvars, stopChanClosed, jobChanClosed, panic, qvars, ctxDone,
                 poller, chan, started, wvars, hist>>

\* Worker.Stop: w.stopOnce.Do(func() { close(w.stopChan) })
Worker_Stop_stopOnce(c) ==
  /\ Component = "Worker"
  /\ panic = "none"
  /\ stoppc[c] = "stopChan"
  /\ stopChanClosed' = TRUE
  /\ stoppc' = [stoppc EXCEPT ![c] = "jobChan"]
  /\ UNCHANGED <<xvars, dvars, conf, gvars, mvars, jobChanClosed, panic, qvars, ctxDone, poller, chan,
                 started, wvars, hist>>

\* Worker.Stop: close(w.jobChan); closing a closed channel panics
Worker_Stop_CloseJobChan(c) ==
  /\ Component = "Worker"
  /\ panic = "none"
  /\ stoppc[c] = "jobChan"
  /\ IF jobChanClosed
       THEN /\ panic' = "close of closed channel"
            /\ stoppc' = [stoppc EXCEPT ![c] = "panicked"]
            /\ UNCHANGED jobChanClosed
       ELSE /\ jobChanClosed' = TRUE
            /\ stoppc' = [stoppc EXCEPT ![c] = "wait"]
            /\ UNCHANGED panic
  /\ UNCHANGED <<xvars, dvars, conf, gvars, mvars, stopChanClosed, qvars, ctxDone, poller, chan,
                 started, wvars, hist>>

\* Worker.Stop: select { case <-done (workerWg.Wait returned); case
\* <-ctx.Done() (the context given to Stop) }, then return nil
Worker_Stop_Return(c, cancelled) ==
  /\ Component = "Worker"
  /\ panic = "none"
  /\ stoppc[c] = "wait"
  /\ cancelled \/ \A w \in started : wpc[w] = "exited"
  /\ stoppc' = [stoppc EXCEPT ![c] = "returned"]
  /\ UNCHANGED <<xvars, dvars, conf, gvars, mvars, stopChanClosed, jobChanClosed, panic, qvars, ctxDone,
                 poller, chan, started, wvars, hist>>

\* close(stopChan) of SQSPoller.Stop and Dispatcher.Stop: no sync.Once, the
\* close of a closed channel panics
CloseStopChan(c, next) ==
  IF stopChanClosed
    THEN /\ panic' = "close of closed channel"
         /\ stoppc' = [stoppc EXCEPT ![c] = "panicked"]
         /\ UNCHANGED stopChanClosed
    ELSE /\ stopChanClosed' = TRUE
         /\ stoppc' = [stoppc EXCEPT ![c] = next]
         /\ UNCHANGED panic

\* SQSPoller.Stop: close(p.stopChan)
SQSPoller_Stop(c) ==
  /\ pipeline = "stop"
  /\ comp = "SQSPoller"
  /\ panic = "none"
  /\ stoppc[c] = "stopChan"
  /\ CloseStopChan(c, "returned")
  /\ UNCHANGED <<xvars, dvars, conf, gvars, mvars, jobChanClosed, qvars, ctxDone, poller, chan,
                 started, wvars, hist>>

\* Dispatcher.Stop: close(d.stopChan)
Dispatcher_Stop_Close(c) ==
  /\ pipeline = "stop"
  /\ comp = "Dispatcher"
  /\ panic = "none"
  /\ stoppc[c] = "stopChan"
  /\ CloseStopChan(c, "wait")
  /\ UNCHANGED <<xvars, dvars, conf, gvars, mvars, jobChanClosed, qvars, ctxDone, poller, chan,
                 started, wvars, hist>>

\* Dispatcher.Stop: d.wg.Wait() returns, SetActiveWorkers(0), return
Dispatcher_Stop_Return(c) ==
  /\ pipeline = "stop"
  /\ comp = "Dispatcher"
  /\ panic = "none"
  /\ stoppc[c] = "wait"
  /\ dpc \in {"init", "exited"}
  /\ \A w \in started : wpc[w] = "exited"
  /\ stoppc' = [stoppc EXCEPT ![c] = "returned"]
  /\ UNCHANGED <<xvars, dvars, conf, gvars, mvars, stopChanClosed, jobChanClosed, panic, qvars, ctxDone,
                 poller, chan, started, wvars, hist>>

\* =========================================================== pipeline "handler"
\* One invocation of an event handler.  hnd.eventId and hnd.seats say whether
\* the event carries an event id and a non-empty list of seat ids; hnd.calls
\* is the sequence of downstream calls made so far, the last of which has
\* failed when hnd.pc = "error", and hnd.args holds their arguments.  The
\* same event may be delivered a second time: hnd.delivery counts, and
\* hnd.first keeps what the handler did with the first delivery.
NoLog == [pc |-> "none", calls |-> <<>>, args |-> <<>>]
NoHandler == [impl |-> "none", type |-> "", eventId |-> FALSE, seats |-> FALSE,
              pc |-> "none", calls |-> <<>>, args |-> <<>>, delivery |-> 0,
              first |-> NoLog]

\* the handlers in the tree and the event type each is written for
HandlerRoutes == {<<"EventHandlerImpl", "reservation.expired">>,
                  <<"EventHandlerImpl", "reservation.hold.expired">>,
                  <<"ExpiredHandler", "reservation.hold.expired">>,
                  <<"EventHandlerImpl", "payment.approved">>,
                  <<"EventHandlerImpl", "payment.failed">>,
                  <<"ExpiredHandler", "reservation.expired">>,
                  <<"FailedHandler", "payment.failed">>}

HandlerEvents == {[impl |-> r[1], type |-> r[2], eventId |-> e, seats |-> q,
                   pc |-> "start", calls |-> <<>>, args |-> <<>>, delivery |-> 1,
                   first |-> NoLog] :
                    r \in HandlerRoutes, e \in BOOLEAN, q \in BOOLEAN}

\* the downstream calls each handler makes, in order, while none fails
handleReservationExpired_Calls == <<"UpdateStatus(EXPIRED)", "ReleaseHold">>
handlePaymentApproved_Calls == <<"UpdateStatus(CONFIRMED)">>
handlePaymentFailed_Calls == <<"UpdateStatus(CANCELLED)">>
ExpiredHandler_Handle_Calls == <<"ReleaseHold", "UpdateStatus(EXPIRED)">>
FailedHandler_Handle_Calls(h) ==
  <<"UpdateStatus(CANCELLED)">> \o (IF h.eventId /\ h.seats THEN <<"ReleaseHold">> ELSE <<>>)

Handler_Calls(h) ==
  CASE h.impl = "EventHandlerImpl" /\ h.type = "reservation.expired" -> handleReservationExpired_Calls
    [] h.impl = "EventHandlerImpl" /\ h.type = "payment.approved" -> handlePaymentApproved_Calls
    [] h.impl = "EventHandlerImpl" /\ h.type = "payment.failed" -> handlePaymentFailed_Calls
    [] h.impl = "ExpiredHandler" -> ExpiredHandler_Handle_Calls
    [] h.impl = "FailedHandler" -> FailedHandler_Handle_Calls(h)
    [] OTHER -> <<>>

\* (mutant) the handler adds a key made from the delivery to the arguments
Handler_Args_WithDelivery(h, call) ==
  IF call = "ReleaseHold" THEN <<"rsv_1", h.eventId, h.seats, h.delivery>>
  ELSE <<"rsv_1", h.delivery>>

\* the arguments of a downstream call: the reservation id of the event for
\* UpdateReservationStatus (the status is part of the call's name here), the
\* event id, reservation id, quantity and seat ids of the event for
\* ReleaseHold
Handler_Args(h, call) ==
  IF call = "ReleaseHold" THEN <<"rsv_1", h.eventId, h.seats>>
  ELSE <<"rsv_1">>

\* the handler makes its next downstream call; an error makes it return the
\* error, the success of the last call makes it return nil
Handler_Call(ok) ==
  /\ pipeline = "handler"
  /\ hnd.pc = "start"
  /\ Len(hnd.calls) < Len(Handler_Calls(hnd))
  /\ hnd' = [hnd EXCEPT !.calls = Append(@, Handler_Calls(hnd)[Len(hnd.calls) + 1]),
                        !.args = Append(@, Handler_Args(hnd,
                                               Handler_Calls(hnd)[Len(hnd.calls) + 1])),
                        !.pc = IF ~ok THEN "error"
                               ELSE IF Len(hnd.calls) + 1 = Len(Handler_Calls(hnd)) THEN "ok"
                               ELSE "start"]
  /\ UNCHANGED <<calc, mainpc, tickReady, recvErrors, pollErrors, dvars, conf, gvars, mvars, svars, qvars,
                 ctxDone, poller, chan, started, wvars, hist>>

\* the queue delivers the same event again and the handler is invoked for it
\* a second time
Handler_Redeliver ==
  /\ pipeline = "handler"
  /\ hnd.pc \in {"ok", "error"}
  /\ hnd.delivery = 1
  /\ hnd' = [hnd EXCEPT !.first = [pc |-> hnd.pc, calls |-> hnd.calls, args |-> hnd.args],
                        !.pc = "start", !.calls = <<>>, !.args = <<>>, !.delivery = 2]
  /\ UNCHANGED <<calc, mainpc, tickReady, recvErrors, pollErrors, dvars, conf, gvars, mvars, svars, qvars,
                 ctxDone, poller, chan, started, wvars, hist>>

\* EventHandlerImpl.Handle: the default branch of the switch, the type has no
\* handler and an error is returned without a downstream call
Handler_UnknownType ==
  /\ pipeline = "handler"
  /\ hnd.pc = "start"
  /\ Handler_Calls(hnd) = <<>>
  /\ hnd' = [hnd EXCEPT !.pc = "error"]
  /\ UNCHANGED <<calc, mainpc, tickReady, recvErrors, pollErrors, dvars, conf, gvars, mvars, svars, qvars,
                 ctxDone, poller, chan, started, wvars, hist>>

\* ========================================================== pipeline "function"
\* One call of a function of the config or event package: calc holds the
\* function, its arguments and, once calc.pc = "done", its result.
NoCalc == [fn |-> "none", pc |-> "none"]

fvars == <<mainpc, tickReady, recvErrors, pollErrors, hnd, dvars, conf, gvars, mvars, svars, qvars, ctxDone,
           poller, chan, started, wvars, hist>>

\* the second Config.GetBackoffDuration of the tree:
\* c.BackoffBaseDuration * time.Duration(1<<attempt)
GetBackoffDuration_Shift(base, attempt) == base * Pow2(attempt)

\* BACKOFF_BASE_MS values: the ends of the range Validate accepts and the
\* default
BackoffBases == {100, 1000, BackoffBaseMs}
BackoffCalls ==
  {[fn |-> f, base |-> b, attempt |-> k, pc |-> "call", result |-> 0] :
     f \in {"GetBackoffDuration", "GetBackoffDuration_Shift"},
     b \in BackoffBases, k \in 0..MaxAttemptArg}
  \cup \* the k-th NextBackOff of processEventWithRetry's backoffStrategy
  {[fn |-> "NextBackOff", base |-> BackoffBaseMs, attempt |-> k, pc |-> "call",
    result |-> 0] : k \in 0..MaxAttemptArg}

\* Event.ParseEventDetail: the switch on e.Type, then json.Unmarshal of
\* e.Detail into the detail struct of the type
ParseEventDetail(type, json) ==
  CASE type \in {"reservation.expired", "reservation.hold.expired"} ->
         IF json THEN "ok" ELSE "error"
    [] type = "payment.approved" -> IF json THEN "ok" ELSE "error"
    [] type = "payment.failed" -> IF json THEN "ok" ELSE "error"
    [] OTHER -> "error"

\* the type strings given to ParseEventDetail: the constants of the handler
\* package and strings that are none of them
ParseTypes == DispatcherEventTypes \cup {"reservation.hold.created", "invalid.event", ""}
ParseCalls == {[fn |-> "ParseEventDetail", type |-> t, json |-> j, pc |-> "call",
                result |-> "none"] : t \in ParseTypes, j \in BOOLEAN}

Calc_ParseEventDetail ==
  /\ pipeline = "function"
  /\ calc.fn = "ParseEventDetail"
  /\ calc.pc = "call"
  /\ calc' = [calc EXCEPT !.pc = "done", !.result = ParseEventDetail(calc.type, calc.json)]
  /\ UNCHANGED fvars

Calc_GetBackoffDuration ==
  /\ pipeline = "function"
  /\ calc.fn = "GetBackoffDuration"
  /\ calc.pc = "call"
  /\ calc' = [calc EXCEPT !.pc = "done",
                          !.result = GetBackoffDuration(calc.base, calc.attempt)]
  /\ UNCHANGED fvars

Calc_GetBackoffDuration_Shift ==
  /\ pipeline = "function"
  /\ calc.fn = "GetBackoffDuration_Shift"
  /\ calc.pc = "call"
  /\ calc' = [calc EXCEPT !.pc = "done",
                          !.result = GetBackoffDuration_Shift(calc.base, calc.attempt)]
  /\ UNCHANGED fvars

\* backoff.ExponentialBackOff.NextBackOff: a random value of the interval
\* around the current interval; the model follows its two ends and its
\* centre
NextBackOff_Values(k) == {RandomizedLo(k), CurrentInterval(k), RandomizedHi(k)}

Calc_NextBackOff(r) ==
  /\ pipeline = "function"
  /\ calc.fn = "NextBackOff"
  /\ calc.pc = "call"
  /\ r \in NextBackOff_Values(calc.attempt)
  /\ calc' = [calc EXCEPT !.pc = "done", !.result = r]
  /\ UNCHANGED fvars

\* ----------------------------------------------- Retryer.Do and DoWithResult
\* One whole call of each, as a function of cfg.MaxRetries (m), of the
\* results the wrapped function gives to its successive invocations
\* (results[i] = TRUE: nil error) and of the moment the context is cancelled
\* (t).  The code looks at the context at fixed points: point 2*attempt is the
\* select before the attempt, point 2*attempt + 1 the select of the backoff
\* wait after it; the context is found cancelled at the points >= t.  A run
\* is the number of invocations, the backoff durations asked for and the way
\* the call ended.
RECURSIVE Retryer_Do_Loop(_, _, _, _, _, _)
Retryer_Do_Loop(m, results, t, attempt, calls, waits) ==
  IF ~(attempt < m) THEN [calls |-> calls, waits |-> waits, outcome |-> "exhausted"]
  ELSE IF 2 * attempt >= t THEN [calls |-> calls, waits |-> waits, outcome |-> "ctx"]
  ELSE IF results[attempt + 1]
    THEN [calls |-> calls + 1, waits |-> waits, outcome |-> "success"]
  ELSE IF attempt = m - 1
    THEN [calls |-> calls + 1, waits |-> waits, outcome |-> "exhausted"]
  ELSE IF 2 * attempt + 1 >= t
    THEN [calls |-> calls + 1,
          waits |-> Append(waits, GetBackoffDuration(backoffBase, attempt)),
          outcome |-> "ctx"]
  ELSE Retryer_Do_Loop(m, results, t, attempt + 1, calls + 1,
                       Append(waits, GetBackoffDuration(backoffBase, attempt)))

Retryer_Do_Run(m, results, t) == Retryer_Do_Loop(m, results, t, 0, 0, <<>>)

\* DoWithResult: the same loop written a second time for a function that
\* returns a value; value is the res of the successful invocation, the zero
\* value otherwise
RECURSIVE DoWithResult_Loop(_, _, _, _, _, _)
DoWithResult_Loop(m, results, t, attempt, calls, waits) ==
  IF ~(attempt < m)
    THEN [calls |-> calls, waits |-> waits, outcome |-> "exhausted", value |-> "zero"]
  ELSE IF 2 * attempt >= t
    THEN [calls |-> calls, waits |-> waits, outcome |-> "ctx", value |-> "zero"]
  ELSE IF results[attempt + 1]
    THEN [calls |-> calls + 1, waits |-> waits, outcome |-> "success", value |-> "res"]
  ELSE IF attempt = m - 1
    THEN [calls |-> calls + 1, waits |-> waits, outcome |-> "exhausted",
          value |-> "zero"]
  ELSE IF 2 * attempt + 1 >= t
    THEN [calls |-> calls + 1,
          waits |-> Append(waits, GetBackoffDuration(backoffBase, attempt)),
          outcome |-> "ctx", value |-> "zero"]
  ELSE DoWithResult_Loop(m, results, t, attempt + 1, calls + 1,
                         Append(waits, GetBackoffDuration(backoffBase, attempt)))

\* (mutant) the loop of DoWithResult runs while attempt <= cfg.MaxRetries
DoWithResult_Run_OneMore(m, results, t) ==
  DoWithResult_Loop(m + 1, results, t, 0, 0, <<>>)

DoWithResult_Run(m, results, t) == DoWithResult_Loop(m, results, t, 0, 0, <<>>)

\* the calls compared: MaxRetries from 0 to one beyond the configured value,
\* every sequence of results, every cancellation point and no cancellation
RetryAttempts == MaxRetries + 2
NoRun == [calls |-> 0, waits |-> <<>>, outcome |-> "none"]
RetryCalls ==
  {[fn |-> "Retry", m |-> m, results |-> r, t |-> t, pc |-> "call", do |-> NoRun,
    withResult |-> NoRun] :
     m \in 0..(MaxRetries + 1), r \in [1..RetryAttempts -> BOOLEAN],
     t \in 0..(2 * RetryAttempts)}

Calc_Retryer_Do ==
  /\ pipeline = "function"
  /\ calc.fn = "Retry"
  /\ calc.do = NoRun
  /\ calc' = [calc EXCEPT !.do = Retryer_Do_Run(calc.m, calc.results, calc.t),
                          !.pc = IF calc.withResult = NoRun THEN "call" ELSE "done"]
  /\ UNCHANGED fvars

Calc_DoWithResult ==
  /\ pipeline = "function"
  /\ calc.fn = "Retry"
  /\ calc.withResult = NoRun
  /\ calc' = [calc EXCEPT !.withResult = DoWithResult_Run(calc.m, calc.results, calc.t),
                          !.pc = IF calc.do = NoRun THEN "call" ELSE "done"]
  /\ UNCHANGED fvars

\* Worker.parseEvent on a message whose body unmarshals to the fields of w
\* and whose receipt handle is handle: the Event the handler will see, or
\* an error (ok = FALSE).  Every field is the body's, but TraceID is set to
\* the receipt handle.
parseEvent_Event(w, handle) ==
  IF ~parseEvent(w) THEN [ok |-> FALSE]
  ELSE [ok |-> TRUE, id |-> w.id, type |-> w.type, reservation_id |-> w.reservation_id,
        event_id |-> w.event_id, payload |-> w.payload, trace_id |-> handle]

\* message bodies as they come from the wire: each field present or not
WireEvents ==
  [json : {TRUE}, id : {"", "e1"}, type : {"", "reservation.expired"},
   reservation_id : {"", "rsv_1"}, event_id : {"", "evt_1"},
   payload : {"", "qty=2,seat_ids=A1,A2"}, trace_id : {"", "trace-1"}]

ParseEventCalls ==
  {[fn |-> "parseEvent", wire |-> w, handle |-> "receipt-handle-1", pc |-> "call",
    result |-> [ok |-> FALSE]] : w \in WireEvents}

Calc_parseEvent ==
  /\ pipeline = "function"
  /\ calc.fn = "parseEvent"
  /\ calc.pc = "call"
  /\ calc' = [calc EXCEPT !.pc = "done", !.result = parseEvent_Event(calc.wire, calc.handle)]
  /\ UNCHANGED fvars

\* Config.Validate of the config package that has one: the first check that
\* fails gives the error, nil when none does
Validate(c) ==
  CASE c.SQSQueueURL = "" -> "SQS_QUEUE_URL is required"
    [] c.SQSWaitTime <= 0 \/ c.SQSWaitTime > 20 ->
         "SQS_WAIT_TIME must be between 1 and 20 seconds"
    [] c.WorkerConcurrency <= 0 \/ c.WorkerConcurrency > 1000 ->
         "WORKER_CONCURRENCY must be between 1 and 1000"
    [] c.MaxRetries < 0 \/ c.MaxRetries > 10 -> "MAX_RETRIES must be between 0 and 10"
    [] c.BackoffBaseMs < 100 \/ c.BackoffBaseMs > 10000 ->
         "BACKOFF_BASE_MS must be between 100 and 10000 ms"
    [] c.InventoryGRPCAddr = "" -> "INVENTORY_GRPC_ADDR is required"
    [] c.ReservationAPIBase = "" -> "RESERVATION_API_BASE is required"
    [] c.LogLevel \notin {"debug", "info", "warn", "error"} ->
         "LOG_LEVEL must be one of: debug, info, warn, error"
    [] OTHER -> "nil"

\* getEnv: the value of the variable, the default when it is unset or empty
getEnv(value, defaultValue) == IF value # "" THEN value ELSE defaultValue

\* Load of the config package main imports: every field is the environment's
\* value (integers as strconv.Atoi reads them) or its default; no check
Load(e) ==
  [SQSQueueURL |-> getEnv(e.SQSQueueURL,
                          "https://sqs.ap-northeast-2.amazonaws.com/123/reservation-events"),
   SQSWaitTime |-> e.SQSWaitTime,
   WorkerConcurrency |-> e.WorkerConcurrency,
   MaxRetries |-> e.MaxRetries,
   BackoffBaseMs |-> e.BackoffBaseMs,
   InventoryGRPCAddr |-> getEnv(e.InventoryGRPCAddr, "inventory-svc:8021"),
   ReservationAPIBase |-> getEnv(e.ReservationAPIBase, "http://reservation-api:8010"),
   LogLevel |-> getEnv(e.LogLevel, "info")]

\* the number of worker goroutines Dispatcher.Start starts for a
\* configuration: one per unit of WorkerConcurrency, none when NewDispatcher
\* panics on the negative channel size
Dispatcher_Start_Workers(c) == IF c.WorkerConcurrency < 0 THEN 0 ELSE c.WorkerConcurrency

\* the configurations and environments tried: every field at both sides of
\* each end of its range, strings empty or not
Environments ==
  [SQSQueueURL : {"", "https://sqs.ap-northeast-2.amazonaws.com/123/queue"},
   SQSWaitTime : {0, 1, 20, 21},
   WorkerConcurrency : {-1, 0, 1, 1000, 1001},
   MaxRetries : {-1, 0, 10, 11},
   BackoffBaseMs : {99, 100, 10000, 10001},
   InventoryGRPCAddr : {"", "inventory-svc:8080"},
   ReservationAPIBase : {"", "http://reservation-api:8080"},
   LogLevel : {"", "debug", "info", "warn", "error", "invalid"}]

ConfigCalls ==
  {[fn |-> "Validate", cfg |-> e, pc |-> "call", result |-> "none"] : e \in Environments}
  \cup {[fn |-> "main", cfg |-> e, pc |-> "call", result |-> 0] : e \in Environments}

Calc_Validate ==
  /\ pipeline = "function"
  /\ calc.fn = "Validate"
  /\ calc.pc = "call"
  /\ calc' = [calc EXCEPT !.pc = "done", !.result = Validate(calc.cfg)]
  /\ UNCHANGED fvars

\* main: the configuration is loaded and the dispatcher is created and
\* started from it; calc.cfg becomes the loaded configuration and
\* calc.result the number of workers started
Calc_main ==
  /\ pipeline = "function"
  /\ calc.fn = "main"
  /\ calc.pc = "call"
  /\ calc' = [calc EXCEPT !.pc = "done", !.cfg = Load(calc.cfg),
                          !.result = Dispatcher_Start_Workers(Load(calc.cfg))]
  /\ UNCHANGED fvars

\* ===================================================================== system
Pipelines == {"worker", "dispatcher", "retryer"}
AllExpired == [m \in Msgs |-> Expired]
FunctionCalls ==
  BackoffCalls \cup ParseCalls \cup ConfigCalls \cup ParseEventCalls \cup RetryCalls

\* the configurations a behaviour starts from; queue is the set of messages
\* that are on the queue
Configurations ==
  \* the three retry loops with the configured retry bound, any first message
  {[pipeline |-> p, body |-> b, queue |-> Msgs, maxRetries |-> MaxRetries,
    workerCount |-> WorkerConcurrency, faults |-> 0, backoffBase |-> BackoffBaseMs, httpFails |-> FALSE, stops |-> 0, comp |-> "none", hnd |-> NoHandler, calc |-> NoCalc] :
     p \in Pipelines, b \in Batches}
  \cup \* MAX_RETRIES=0
  {[pipeline |-> p, body |-> AllExpired, queue |-> {1}, maxRetries |-> 0,
    workerCount |-> WorkerConcurrency, faults |-> 0, backoffBase |-> BackoffBaseMs, httpFails |-> FALSE, stops |-> 0, comp |-> "none", hnd |-> NoHandler, calc |-> NoCalc] :
     p \in Pipelines}
  \cup \* one worker more
  {[pipeline |-> p, body |-> AllExpired, queue |-> {1}, maxRetries |-> 0,
    workerCount |-> WorkerConcurrency + 1, faults |-> 0, backoffBase |-> BackoffBaseMs, httpFails |-> FALSE, stops |-> 0, comp |-> "none", hnd |-> NoHandler, calc |-> NoCalc] :
     p \in {"worker", "dispatcher"}}
  \cup \* a queue whose ReceiveMessage may fail
  {[pipeline |-> p, body |-> AllExpired, queue |-> {1}, maxRetries |-> 0,
    workerCount |-> WorkerConcurrency, faults |-> MaxPollErrors, backoffBase |-> BackoffBaseMs,
    httpFails |-> FALSE, stops |-> 0, comp |-> "none", hnd |-> NoHandler, calc |-> NoCalc] :
     p \in {"worker", "dispatcher"}}
  \cup \* the default configuration: MAX_RETRIES=5, BACKOFF_BASE_MS=1000
  {[pipeline |-> p, body |-> AllExpired, queue |-> {1}, maxRetries |-> DefaultMaxRetries,
    workerCount |-> WorkerConcurrency, faults |-> 0, backoffBase |-> DefaultBackoffBaseMs,
    httpFails |-> FALSE, stops |-> 0, comp |-> "none", hnd |-> NoHandler, calc |-> NoCalc] : p \in {"dispatcher", "retryer"}}
  \cup \* a handler on its own
  {[pipeline |-> "handler", body |-> AllExpired, queue |-> {}, maxRetries |-> MaxRetries,
    workerCount |-> WorkerConcurrency, faults |-> 0, backoffBase |-> BackoffBaseMs,
    httpFails |-> FALSE, stops |-> 0, comp |-> "none", hnd |-> h, calc |-> NoCalc] : h \in HandlerEvents}
  \cup \* a function on its own
  {[pipeline |-> "function", body |-> AllExpired, queue |-> {}, maxRetries |-> MaxRetries,
    workerCount |-> WorkerConcurrency, faults |-> 0, backoffBase |-> BackoffBaseMs,
    httpFails |-> FALSE, stops |-> 0, comp |-> "none", hnd |-> NoHandler, calc |-> f] : f \in FunctionCalls}
  \cup \* a running Worker whose Stop is called
  {[pipeline |-> "worker", body |-> AllExpired, queue |-> {1}, maxRetries |-> 0,
    workerCount |-> WorkerConcurrency, faults |-> 0, backoffBase |-> BackoffBaseMs,
    httpFails |-> FALSE, stops |-> MaxStopCalls, comp |-> "Worker", hnd |-> NoHandler, calc |-> NoCalc]}
  \cup \* the Stop of a component on its own
  {[pipeline |-> "stop", body |-> AllExpired, queue |-> {}, maxRetries |-> MaxRetries,
    workerCount |-> WorkerConcurrency, faults |-> 0, backoffBase |-> BackoffBaseMs,
    httpFails |-> FALSE, stops |-> MaxStopCalls, comp |-> k, hnd |-> NoHandler, calc |-> NoCalc] :
     k \in {"Worker", "SQSPoller", "Dispatcher"}}
  \cup \* main with an HTTP server that may fail to listen
  {[pipeline |-> "dispatcher", body |-> AllExpired, queue |-> {1}, maxRetries |-> 0,
    workerCount |-> WorkerConcurrency, faults |-> 0, backoffBase |-> BackoffBaseMs,
    httpFails |-> TRUE, stops |-> 0, comp |-> "none", hnd |-> NoHandler,
    calc |-> NoCalc]}

Init ==
  /\ \E c \in Configurations :
       /\ pipeline = c.pipeline
       /\ body = c.body
       /\ maxRetries = c.maxRetries
       /\ workerCount = c.workerCount
       /\ faults = c.faults
       /\ backoffBase = c.backoffBase
       /\ stops = c.stops
       /\ httpFails = c.httpFails
       /\ comp = c.comp
       /\ calc = c.calc
       /\ hnd = c.hnd
       /\ qstate = [m \in Msgs |-> IF m \in c.queue THEN "visible" ELSE "deleted"]
  /\ mainpc = IF pipeline = "dispatcher" THEN "running" ELSE "none"
  /\ httppc = IF pipeline = "dispatcher" THEN "serving" ELSE "none"
  /\ exitBranch = "none"
  /\ tickReady = FALSE
  /\ recvErrors = 0
  /\ pollErrors = 0
  /\ recv = [m \in Msgs |-> 0]
  /\ ctxDone = FALSE
  /\ stoppc = [c \in StopCallers |-> "none"]
  /\ stopChanClosed = FALSE
  /\ jobChanClosed = FALSE
  /\ panic = "none"
  /\ eventsTotal = [d \in Deliveries |-> [success |-> 0, failed |-> 0, retried |-> 0]]
  /\ poller = [pc |-> "init", batch |-> <<>>]
  /\ chan = <<>>
  /\ started = {}
  /\ wpc = [w \in WorkerIds |-> "none"]
  /\ wev = [w \in WorkerIds |-> None]
  /\ wattempt = [w \in WorkerIds |-> 0]
  /\ wdelay = [w \in WorkerIds |-> 0]
  /\ dpc = "init"
  /\ dev = None
  /\ workerPool = <<>>
  /\ handlerCalls = [d \in Deliveries |-> 0]
  /\ handlerFails = [d \in Deliveries |-> 0]
  /\ deleteCalls = [d \in Deliveries |-> 0]
  /\ offered = [d \in Deliveries |-> FALSE]
  /\ traceID = [d \in Deliveries |-> None]
  /\ invalidPayload = [d \in Deliveries |-> 0]
  /\ refused = [d \in Deliveries |-> FALSE]
  /\ outcome = [d \in Deliveries |-> "none"]

Next ==
  \/ Cancel
  \/ \E m \in Msgs : VisibilityTimeout(m)
  \/ Worker_Start
  \/ Worker_pollSQS_Done
  \/ Worker_Tick
  \/ \E S \in SUBSET Msgs : Worker_Receive(S)
  \/ Worker_Receive_Error
  \/ \E ok \in BOOLEAN : Worker_Malformed(ok)
  \/ Worker_Send
  \/ Worker_Send_Closed
  \/ Worker_SendCancelled
  \/ Worker_PoolFull
  \/ \E w \in WorkerIds : Worker_worker_Done(w)
  \/ \E w \in WorkerIds : Worker_worker_Job(w)
  \/ \E w \in WorkerIds : Worker_HandleOk(w)
  \/ \E w \in WorkerIds, ok \in BOOLEAN : Worker_Delete(w, ok)
  \/ \E w \in WorkerIds, stop \in BOOLEAN : Worker_HandleErr(w, stop)
  \/ \E w \in WorkerIds : Worker_BackoffFired(w)
  \/ \E w \in WorkerIds : Worker_BackoffCancelled(w)
  \/ Dispatcher_Start
  \/ SQSPoller_Start
  \/ SQSPoller_Start_Done
  \/ \E S \in SUBSET Msgs : SQSPoller_pollOnce(S)
  \/ SQSPoller_pollOnce_Error
  \/ SQSPoller_SleepOver
  \/ SQSPoller_ParseError
  \/ SQSPoller_Send
  \/ \E ok \in BOOLEAN : SQSPoller_Delete(ok)
  \/ SQSPoller_SendCancelled
  \/ SQSPoller_SendTimeout
  \/ dispatch_Done
  \/ dispatch_Event
  \/ dispatch_NoWorker
  \/ dispatch_WorkerGone
  \/ dispatch_Hand
  \/ \E w \in WorkerIds : DWorker_Done(w)
  \/ \E w \in WorkerIds : HandleEvent_Ok(w)
  \/ \E w \in WorkerIds : HandleEvent_Err(w)
  \/ \E w \in WorkerIds : HandleEvent_Retry(w)
  \/ Retryer_Do
  \/ Retryer_FnOk
  \/ Retryer_FnErr
  \/ Retryer_BackoffFired
  \/ Retryer_BackoffCancelled
  \/ \E c \in StopCallers : Stop_Call(c)
  \/ \E c \in StopCallers : Worker_Stop_stopOnce(c)
  \/ \E c \in StopCallers : Worker_Stop_CloseJobChan(c)
  \/ \E c \in StopCallers, cancelled \in BOOLEAN : Worker_Stop_Return(c, cancelled)
  \/ \E c \in StopCallers : SQSPoller_Stop(c)
  \/ \E c \in StopCallers : Dispatcher_Stop_Close(c)
  \/ \E c \in StopCallers : Dispatcher_Stop_Return(c)
  \/ Main_DispatcherStop_Return
  \/ Main_Exit
  \/ Main_Exit_Timeout
  \/ HTTP_ListenFails
  \/ \E ok \in BOOLEAN : Handler_Call(ok)
  \/ Handler_UnknownType
  \/ Handler_Redeliver
  \/ Calc_ParseEventDetail
  \/ Calc_Validate
  \/ Calc_parseEvent
  \/ Calc_Retryer_Do
  \/ Calc_DoWithResult
  \/ Calc_main
  \/ Calc_GetBackoffDuration
  \/ Calc_GetBackoffDuration_Shift
  \/ \E r \in UNION {NextBackOff_Values(k) : k \in 0..MaxAttemptArg} : Calc_NextBackOff(r)

Spec == Init /\ [][Next]_vars

TypeOK ==
  /\ pipeline \in Pipelines \cup {"handler", "function", "stop"}
  /\ \A m \in Msgs : qstate[m] \in {"visible", "inflight", "deleted"}
  /\ Len(chan) <= JobChanCap

\* ===================================================================== claims
Queued == pipeline \in {"worker", "dispatcher"}
\* a malformed message: the body does not parse, or lacks id or
\* reservation_id, or carries a type that is not recognised
Malformed(b) == \/ ~b.json
                \/ b.id = ""
                \/ b.reservation_id = ""
                \/ b.type \notin DispatcherEventTypes
Received(d) == d[2] <= recv[d[1]]
\* the poller has finished its loop iteration for delivery d
PollerDone(d) == /\ Received(d)
                 /\ \A i \in 1..Len(poller.batch) : poller.batch[i] # d
\* SQSPoller.pollOnce is between processMessage and deleteMessage for d
PendingDelete(d) == /\ pipeline = "dispatcher"
                    /\ poller.pc = "delete"
                    /\ Head(poller.batch) = d
\* the handler invoked for d has returned nil
HandlerSucceeded(d) == \/ outcome[d] = "success"
                       \/ \E w \in WorkerIds : wpc[w] = "deleting" /\ wev[w] = d
Busy(w) == wpc[w] \in {"handling", "deleting", "backoff"}
InFlight == {wev[w] : w \in {x \in WorkerIds : Busy(x)}}

\* C1: DeleteMessage is issued for a well-formed message only after the
\* handler invoked for it has returned success, and a delivery that ended in
\* failure or cancellation has no DeleteMessage call.
C1_DeleteOnlyAfterSuccess ==
  Queued =>
    \A d \in Deliveries :
      /\ (~Malformed(body[d[1]]) /\ deleteCalls[d] > 0) => HandlerSucceeded(d)
      /\ outcome[d] \in {"failed", "cancelled"} => deleteCalls[d] = 0

\* C2: a delivery whose outcome is success has exactly one DeleteMessage call
\* with its receipt handle (none only while SQSPoller.pollOnce stands right
\* before that call), whatever the number of failed attempts before.
C2_SuccessDeletedOnce ==
  Queued =>
    \A d \in Deliveries :
      outcome[d] = "success" => deleteCalls[d] = (IF PendingDelete(d) THEN 0 ELSE 1)

C2_Witness ==
  \E d \in Deliveries :
    /\ Queued
    /\ outcome[d] = "success"
    /\ handlerFails[d] > 0
    /\ deleteCalls[d] = 1

\* C3: a malformed message that the poller has dealt with has exactly one
\* DeleteMessage call, was not offered to the pool and had no handler
\* invoked.
C3_MalformedDeletedNoHandler ==
  Queued =>
    \A d \in Deliveries :
      (PollerDone(d) /\ Malformed(body[d[1]])) =>
        /\ deleteCalls[d] = 1
        /\ ~offered[d]
        /\ handlerCalls[d] = 0

\* C4: no delivery has more than max_retries + 1 handler invocations.
C4_AttemptsBounded ==
  \A d \in Deliveries : handlerCalls[d] <= maxRetries + 1

\* C5: once the context is cancelled, no message is received and no handler
\* attempt starts.
C5_NothingNewAfterCancel ==
  [][ctxDone => (recv' = recv /\ handlerCalls' = handlerCalls)]_vars

\* C6: the events with a handler attempt or a backoff wait in progress are at
\* most worker_concurrency.
C6_InFlightBounded ==
  Queued => Cardinality(InFlight) <= workerCount

C6_Witness ==
  /\ Queued
  /\ Cardinality(InFlight) = workerCount
  /\ chan # <<>>

\* C7: a delivery the poller could not hand to the pool because the channel
\* was full has no DeleteMessage call, and its message is not deleted unless
\* through another delivery of it.
C7_RefusedNotDeleted ==
  Queued =>
    \A d \in Deliveries :
      refused[d] =>
        /\ deleteCalls[d] = 0
        /\ qstate[d[1]] = "deleted" =>
             \E e \in Deliveries : e[1] = d[1] /\ e # d /\ deleteCalls[e] > 0

C7_Witness ==
  \E d \in Deliveries :
    /\ Queued
    /\ refused[d]
    /\ PollerDone(d)
    /\ qstate[d[1]] # "deleted"

\* C8: an event of an unrecognised type gets no second attempt and no
\* backoff wait.
C8_UnknownTypeNotRetried ==
  Queued =>
    \A d \in Deliveries :
      body[d[1]].type \notin DispatcherEventTypes =>
        /\ handlerCalls[d] <= 1
        /\ \A w \in WorkerIds : ~(wpc[w] = "backoff" /\ wev[w] = d)

\* C9: while every attempt fails, at most max_retries + 1 attempts are made;
\* a delivery that ends failed had exactly max_retries + 1 attempts and no
\* DeleteMessage call.
C9_ExhaustedRetries ==
  \A d \in Deliveries :
    /\ handlerFails[d] = handlerCalls[d] => handlerCalls[d] <= maxRetries + 1
    /\ outcome[d] = "failed" => (handlerCalls[d] = maxRetries + 1 /\ deleteCalls[d] = 0)

\* C10: a handler that fails at most max_retries times is not given up on, and
\* a delivery that ends in success had one attempt more than it had failures
\* and exactly one DeleteMessage call.
C10_FailThenSucceed ==
  \A d \in Deliveries :
    /\ outcome[d] = "failed" => handlerFails[d] > maxRetries
    /\ outcome[d] = "success" => handlerCalls[d] = handlerFails[d] + 1
    /\ (Queued /\ outcome[d] = "success") =>
         deleteCalls[d] = (IF PendingDelete(d) THEN 0 ELSE 1)

\* C11: with max_retries = 0 a delivery that ends in success or failure had
\* exactly one handler invocation, and no delivery has a second invocation or
\* a backoff wait.
C11_ZeroRetriesOneAttempt ==
  maxRetries = 0 =>
    \A d \in Deliveries :
      /\ outcome[d] \in {"success", "failed"} => handlerCalls[d] = 1
      /\ handlerCalls[d] <= 1
      /\ \A w \in WorkerIds : ~(wpc[w] = "backoff" /\ wev[w] = d)

\* C12: in Dispatcher.HandleEvent and Retryer.Do, a backoff wait that finds
\* the context cancelled is not followed by another handler invocation.
C12_CancelledBackoffEnds ==
  [][(pipeline \in {"dispatcher", "retryer"} /\ ctxDone)
       => \A w \in WorkerIds : wpc[w] = "backoff"
            => handlerCalls'[wev[w]] = handlerCalls[wev[w]]]_vars

\* the moves left to a worker goroutine once shutdown has begun: it ends the
\* attempt it is running, ends a wait, and exits
WindDownMoves == {<<"idle", "exited">>, <<"handling", "deleting">>, <<"handling", "idle">>,
                  <<"deleting", "idle">>, <<"backoff", "idle">>}

\* C13: after the shutdown signal a worker goroutine takes no new event,
\* starts no backoff wait and no further attempt: it finishes at most the
\* attempt in progress and exits.
C13_WorkersWindDown ==
  [][(Queued /\ ctxDone) =>
       \A w \in started : wpc'[w] = wpc[w] \/ <<wpc[w], wpc'[w]>> \in WindDownMoves]_vars

\* C14: after the shutdown signal main can always take its next step towards
\* exit on its own, whatever the other goroutines do.
C14_MainNeverWaitsForOthers ==
  mainpc \in {"dispatcherStop", "wait"} =>
    ENABLED (Main_DispatcherStop_Return \/ Main_Exit \/ Main_Exit_Timeout)

\* the visibility timeout of delivery d has expired: its message is
\* receivable again or has been received again
VisibilityExpired(d) == /\ Received(d)
                        /\ \/ recv[d[1]] > d[2]
                           \/ qstate[d[1]] = "visible"

\* C15: for a delivery that was handed to the pool, no handler attempt
\* starts and no DeleteMessage is issued once its visibility timeout has
\* expired.
C15_NothingAfterVisibilityExpiry ==
  [][Queued =>
       \A d \in Deliveries :
         (offered[d] /\ VisibilityExpired(d)) =>
           (handlerCalls'[d] = handlerCalls[d] /\ deleteCalls'[d] = deleteCalls[d])]_vars

\* C16: a handler of reservation.expired calls UpdateStatus(EXPIRED) only
\* after its ReleaseHold call has succeeded.
C16_ReleaseBeforeStatus ==
  (pipeline = "handler" /\ hnd.type = "reservation.expired") =>
    \A i \in 1..Len(hnd.calls) :
      hnd.calls[i] = "UpdateStatus(EXPIRED)" =>
        \E j \in 1..(i - 1) : hnd.calls[j] = "ReleaseHold"

\* C17: a handler of payment.failed calls UpdateStatus(CANCELLED) first, and
\* when it returns success it has called ReleaseHold if and only if the
\* event has an event id and seat ids.
C17_FailedReleasesIfPayload ==
  (pipeline = "handler" /\ hnd.type = "payment.failed") =>
    /\ hnd.calls # <<>> => hnd.calls[1] = "UpdateStatus(CANCELLED)"
    /\ hnd.pc = "ok" =>
         ((\E i \in 1..Len(hnd.calls) : hnd.calls[i] = "ReleaseHold")
            <=> (hnd.eventId /\ hnd.seats))

\* C18: a handler of payment.approved that returns success has called
\* UpdateStatus(CONFIRMED) once, and CommitReservation if and only if the
\* event has an event id and seat ids.
C18_ApprovedCommitsIfPayload ==
  (pipeline = "handler" /\ hnd.type = "payment.approved" /\ hnd.pc = "ok") =>
    /\ Cardinality({i \in 1..Len(hnd.calls) : hnd.calls[i] = "UpdateStatus(CONFIRMED)"}) = 1
    /\ (\E i \in 1..Len(hnd.calls) : hnd.calls[i] = "CommitReservation")
         <=> (hnd.eventId /\ hnd.seats)

\* C19: no two worker goroutines are busy with deliveries of the same queue
\* message.
C19_OneWorkerPerMessage ==
  Queued =>
    \A w1, w2 \in WorkerIds :
      (w1 # w2 /\ Busy(w1) /\ Busy(w2)) => wev[w1][1] # wev[w2][1]

\* C20: a ReceiveMessage call that returns a transport error raises the
\* poll-error counter by one and leaves the poller running and pausing: the
\* next receive waits for a timer that has not fired yet.
C20_ReceiveErrorPauses ==
  [][recvErrors' = recvErrors + 1 =>
       /\ pollErrors' = pollErrors + 1
       /\ poller'.pc # "exited"
       /\ IF pipeline = "dispatcher" THEN poller'.pc = "sleep"
          ELSE (poller'.pc = "select" /\ ~tickReady')]_vars

\* C21: when every message on the queue is a well-formed event, each delivery
\* the poller has finished with, the context not being cancelled, has been
\* placed in the channel of the worker pool.
C21_WholeBatchDispatched ==
  (Queued /\ ~ctxDone /\ \A m \in Msgs : ~Malformed(body[m])) =>
    \A d \in Deliveries : PollerDone(d) => offered[d]

\* C22: the receipt handle kept in an event is the one its delivery was
\* received with and is not changed afterwards, and every DeleteMessage call
\* carries the receipt handle of the delivery it is made for: the delivery
\* the poller is at, or the delivery a worker has just handled.
C22_ReceiptHandleKept ==
  [][Queued =>
      /\ \A d \in Deliveries :
           /\ traceID[d] # None => traceID'[d] = traceID[d]
           /\ traceID'[d] \in {None, d}
      /\ \A h \in Deliveries : deleteCalls'[h] > deleteCalls[h] =>
           \/ \E w \in WorkerIds : wpc[w] = "deleting" /\ wev[w] = h
           \/ poller.pc \in {"batch", "delete"} /\ Head(poller.batch) = h]_vars

\* a redelivered message has been handled and deleted with its second
\* receipt handle
C22_Witness ==
  /\ pipeline = "worker"
  /\ \E d \in Deliveries :
       /\ d[2] > 1
       /\ traceID[d] = d
       /\ outcome[d] = "success"
       /\ deleteCalls[d] > 0

\* C23: the wait after failed attempt k is backoffBase * 2^k, cut off at the
\* ceiling of two minutes, both as Config.GetBackoffDuration computes it and
\* as the backoff strategy of Worker.processEventWithRetry hands it out.
C23_WaitDoublesFromBase ==
  (pipeline = "function" /\ calc.pc = "done"
     /\ calc.fn \in {"GetBackoffDuration_Shift", "NextBackOff"}) =>
    calc.result = Min(calc.base * Pow2(calc.attempt), MaxIntervalMs)

\* C24: Config.GetBackoffDuration(attempt) is BackoffBaseMS * 2^min(attempt, 4)
\* for every attempt >= 0.
C24_DoublesUpToSixteen ==
  (pipeline = "function" /\ calc.pc = "done"
     /\ calc.fn \in {"GetBackoffDuration", "GetBackoffDuration_Shift"}) =>
    calc.result = calc.base * Pow2(Min(calc.attempt, 4))

\* C25: with MAX_RETRIES=5 and BACKOFF_BASE_MS=1000 the handler is invoked at
\* most 5 times for a delivery, the wait after the k-th failure is
\* 1000 * 2^(k-1) ms, and a delivery that failed for good has had 5 failed
\* attempts and no DeleteMessage, so that the queue can move it to the
\* dead-letter queue.
C25_DefaultFiveAttempts ==
  (pipeline \in {"dispatcher", "retryer"} /\ maxRetries = DefaultMaxRetries
     /\ backoffBase = DefaultBackoffBaseMs) =>
    \A d \in Deliveries :
      /\ handlerCalls[d] <= DefaultMaxRetries
      /\ \A w \in WorkerIds : (wpc[w] = "backoff" /\ wev[w] = d) =>
           wdelay[w] = DefaultBackoffBaseMs * Pow2(handlerFails[d] - 1)
      /\ outcome[d] = "failed" =>
           (handlerFails[d] = DefaultMaxRetries /\ deleteCalls[d] = 0)

\* the pipeline has finished with delivery d: the poller is past it and it is
\* neither waiting in the channel nor held by the dispatcher or a worker
Settled(d) == /\ PollerDone(d)
              /\ \A i \in 1..Len(chan) : chan[i] # d
              /\ dev # d
              /\ \A w \in WorkerIds : wev[w] # d

\* C26: the invalid_payload counter is never incremented for a well-formed
\* message and at most once for a malformed one; when the pipeline has
\* finished with a malformed delivery that was neither refused, dropped nor
\* cut short by cancellation, the counter has been incremented exactly once.
C26_InvalidPayloadCounted ==
  Queued =>
    \A d \in Deliveries :
      /\ ~Malformed(body[d[1]]) => invalidPayload[d] = 0
      /\ invalidPayload[d] <= 1
      /\ (Malformed(body[d[1]]) /\ Settled(d) /\ ~refused[d] /\ ~ctxDone
            /\ outcome[d] # "dropped") => invalidPayload[d] = 1

IsPrefix(p, q) == Len(p) <= Len(q) /\ \A i \in 1..Len(p) : p[i] = q[i]

\* C27: ParseEventDetail succeeds exactly for the types reservation.expired,
\* reservation.hold.expired, payment.approved and payment.failed with a
\* decodable detail; and a handler given a reservation.hold.expired event
\* makes the downstream calls it makes for the same event of type
\* reservation.expired.
C27_EventTypesAccepted ==
  /\ (pipeline = "function" /\ calc.fn = "ParseEventDetail" /\ calc.pc = "done") =>
       (calc.result = "ok" <=>
          (/\ calc.type \in {"reservation.expired", "reservation.hold.expired",
                             "payment.approved", "payment.failed"}
           /\ calc.json))
  /\ (pipeline = "handler" /\ hnd.type = "reservation.hold.expired" /\ hnd.pc # "start") =>
       /\ hnd.calls # <<>>
       /\ IsPrefix(hnd.calls, Handler_Calls([hnd EXCEPT !.type = "reservation.expired"]))
       /\ hnd.pc = "ok" =>
            hnd.calls = Handler_Calls([hnd EXCEPT !.type = "reservation.expired"])

\* delivery d is still on its way to a handler: in the poller's batch, in the
\* channel or in the hands of dispatch
Pending(d) == \/ \E i \in 1..Len(poller.batch) : poller.batch[i] = d
              \/ \E i \in 1..Len(chan) : chan[i] = d
              \/ dev = d

\* C28: a well-formed event is eventually passed to the handler.  Once a
\* message is deleted it is never received again, so while the worker keeps
\* running a well-formed message that is gone from the queue has a delivery
\* that was passed to the handler or is still on its way to it.
C28_NoEventLost ==
  (Queued /\ ~ctxDone) =>
    \A m \in Msgs :
      (~Malformed(body[m]) /\ recv[m] > 0 /\ qstate[m] = "deleted") =>
        \E d \in Deliveries :
          /\ d[1] = m
          /\ Received(d)
          /\ (handlerCalls[d] > 0 \/ Pending(d))

InBounds(c) ==
  /\ c.SQSQueueURL # ""
  /\ c.InventoryGRPCAddr # ""
  /\ c.ReservationAPIBase # ""
  /\ c.SQSWaitTime \in 1..20
  /\ c.WorkerConcurrency \in 1..1000
  /\ c.MaxRetries \in 0..10
  /\ c.BackoffBaseMs \in 100..10000
  /\ c.LogLevel \in {"debug", "info", "warn", "error"}

\* C30: Config.Validate returns nil exactly for the configurations within the
\* bounds (non-empty queue URL, inventory address and reservation base URL,
\* wait time 1..20, concurrency 1..1000, max retries 0..10, backoff base
\* 100..10000 ms, a known log level), and workers are started only from a
\* configuration within them.
C30_ValidatedBeforeStart ==
  (pipeline = "function" /\ calc.pc = "done") =>
    /\ calc.fn = "Validate" => (calc.result = "nil" <=> InBounds(calc.cfg))
    /\ calc.fn = "main" => (calc.result > 0 => InBounds(calc.cfg))

\* C31: Dispatcher.dispatch never discards an event: whenever it has taken an
\* event from the events channel and goes back to its select, the event has
\* been handed to a worker (which handles it or counts it as an invalid
\* payload), whether or not a worker was available.
C31_DispatchHandsEveryEvent ==
  [][(pipeline = "dispatcher" /\ dpc = "worker" /\ dpc' = "select") =>
       \/ \E w \in WorkerIds : wev'[w] = dev /\ wpc'[w] = "handling"
       \/ invalidPayload'[dev] = invalidPayload[dev] + 1]_vars

\* C32: no send on the job channel is performed after Worker.Stop has closed
\* it: Stop interleaved with a poller goroutine that is between its receive
\* and its channel send never leads to a send-on-closed-channel panic.
C32_NoSendOnClosedJobChan ==
  pipeline = "worker" => panic # "send on closed channel"

\* C38: Stop is idempotent: a second call of Worker.Stop, SQSPoller.Stop or
\* Dispatcher.Stop, after or during the first, closes no channel twice (no
\* close-of-closed-channel panic) and returns with the component stopped.
C38_StopIdempotent ==
  /\ panic # "close of closed channel"
  /\ \A c \in StopCallers : stoppc[c] = "returned" => stopChanClosed

\* C33: for each delivery of a well-formed event the events counter gets at
\* most one terminal outcome, success or failed and never both, exactly one
\* once the processing has ended in success or failure; the outcome retried
\* is recorded once for each failed attempt that is followed by another
\* attempt, and a failure followed by a success leaves the failed count at 0.
C33_OneTerminalOutcome ==
  Queued =>
    \A d \in Deliveries : ~Malformed(body[d[1]]) =>
      /\ eventsTotal[d].success + eventsTotal[d].failed <= 1
      /\ outcome[d] = "success" => eventsTotal[d].success = 1 /\ eventsTotal[d].failed = 0
      /\ outcome[d] = "failed" => eventsTotal[d].failed = 1 /\ eventsTotal[d].success = 0
      /\ handlerCalls[d] > 0 =>
           /\ eventsTotal[d].retried >= handlerCalls[d] - 1
           /\ eventsTotal[d].retried <= handlerFails[d]

\* C34: during shutdown the inventory client connection is closed (the
\* deferred inventoryClient.Close of main runs when main returns) only after
\* every worker has exited: at that moment no started worker goroutine is
\* still running, hence no handler attempt is in progress or can start.
C34_CloseAfterWorkersExit ==
  [][(pipeline = "dispatcher" /\ mainpc # "exited" /\ mainpc' = "exited") =>
       \A w \in started : wpc[w] = "exited"]_vars

\* C35: after the shutdown signal, once the poller, the dispatcher and the
\* gRPC server have stopped, every goroutine registered in main's WaitGroup
\* has returned, so the graceful-shutdown case of main's select can be taken.
C35_GracefulShutdownReached ==
  (/\ pipeline = "dispatcher"
   /\ mainpc = "wait"
   /\ poller.pc = "exited"
   /\ dpc = "exited"
   /\ \A w \in started : wpc[w] = "exited") => ENABLED Main_Exit

\* C36: attaching the receipt handle to a parsed event changes no field that
\* came from the wire: id, type, reservation_id, event_id, payload and
\* trace_id of the event the handler sees equal those of the message body.
C36_WireFieldsUnchanged ==
  (pipeline = "function" /\ calc.fn = "parseEvent" /\ calc.pc = "done"
   /\ calc.result.ok) =>
    /\ calc.result.id = calc.wire.id
    /\ calc.result.type = calc.wire.type
    /\ calc.result.reservation_id = calc.wire.reservation_id
    /\ calc.result.event_id = calc.wire.event_id
    /\ calc.result.payload = calc.wire.payload
    /\ calc.result.trace_id = calc.wire.trace_id

\* C37: in Worker.processEventWithRetry, when the handler has succeeded and
\* the DeleteMessage that follows fails, the retry loop ends after that
\* attempt: the handler is not invoked again for this delivery, the event is
\* not recorded as failed and the message stays on the queue undeleted.
C37_DeleteFailureEndsLoop ==
  [][(/\ pipeline = "worker"
      /\ \E w \in WorkerIds :
           /\ wpc[w] = "deleting"
           /\ wpc'[w] # "deleting"
           /\ qstate'[wev[w][1]] # "deleted") =>
       \E w \in WorkerIds :
         /\ wpc[w] = "deleting"
         /\ wpc'[w] = "idle"
         /\ handlerCalls'[wev[w]] = handlerCalls[wev[w]]
         /\ outcome'[wev[w]] # "failed"
         /\ eventsTotal'[wev[w]].failed = eventsTotal[wev[w]].failed
         /\ qstate'[wev[w][1]] = qstate[wev[w][1]]]_vars

\* a handler has succeeded, the deletion has failed and the worker is idle
\* again with the message still on the queue
C37_Witness ==
  /\ pipeline = "worker"
  /\ \E d \in Deliveries :
       /\ outcome[d] = "success"
       /\ deleteCalls[d] = 1
       /\ qstate[d[1]] = "inflight"
       /\ handlerCalls[d] = 1
       /\ \A w \in WorkerIds : wev[w] # d

\* C39: Retryer.Do and DoWithResult are the same retry state machine: with
\* the same MaxRetries, the same results of the wrapped function and the same
\* cancellation point they make the same number of invocations, ask for the
\* same backoff durations and end the same way (success, retries exhausted,
\* context error).
C39_DoAndDoWithResultAgree ==
  (pipeline = "function" /\ calc.fn = "Retry" /\ calc.pc = "done") =>
    /\ calc.do.calls = calc.withResult.calls
    /\ calc.do.waits = calc.withResult.waits
    /\ calc.do.outcome = calc.withResult.outcome

\* both have run with two failures and a cancellation in the second wait
C39_Witness ==
  /\ pipeline = "function"
  /\ calc.fn = "Retry"
  /\ calc.pc = "done"
  /\ calc.do.outcome = "ctx"
  /\ calc.do.calls = 2
  /\ Len(calc.do.waits) = 2
  /\ calc.withResult.calls = 2

====
